---------------------------- MODULE Spec2Model ----------------------------
(***************************************************************************)
(* Review-to-image service: the ingestion side (review store, fan-out      *)
(* pipeline, poll scheduler, webhook / import routes) and the render side  *)
(* (LRU image cache, renderImage, POST /generate, POST /generate/batch).   *)
(*                                                                         *)
(* Node runs one thread: a handler runs without interruption up to its     *)
(* next await.  Every action below is one such run-to-suspension segment.  *)
(***************************************************************************)
EXTENDS Integers, Sequences, FiniteSets, TLC

VARIABLES
    store,      \* ReviewStore instance: [data, dirty, saveTimer]
    opts,       \* ReviewPipeline options: [autoGenerate, autoShare, minRating]
    procs,      \* pipeline.process calls in flight, with the route that made them
    webhookSecret,  \* config.webhookSecret of the adapter serving webhooks (Null: none)
    clock,      \* wall clock read by new Date()
    hist,       \* history of the process calls (read by the properties only)
    sched,      \* PollScheduler instance and the timers it has created
    polls,      \* pollOnce calls in flight
    disk,       \* the store's files, and how far a save has got
    imageCache, \* the render cache: entries in insertion order, oldest first
    browser,    \* the shared browser and its open pages
    renders,    \* renderImage calls in flight, with the request that made them
    batch       \* the POST /generate/batch request in flight

vars == <<store, opts, procs, webhookSecret, clock, hist, sched, polls, disk,
          imageCache, browser, renders, batch>>

pipelineEnv == <<opts, webhookSecret, clock>>
schedVars   == <<sched, polls>>
renderVars  == <<imageCache, browser, renders, batch>>

Null == "null"

----------------------------------------------------------------------------
(* Bounds of the model *)

MaxClock   == 1     \* the wall clock advances at most this far
MaxProcs   == 2     \* process calls that may be suspended at the same time
MaxPayload == 2     \* items in one import / webhook payload

----------------------------------------------------------------------------
(* Small helpers *)

Min(a, b) == IF a < b THEN a ELSE b
Max(a, b) == IF a > b THEN a ELSE b

EmptyMap == [x \in {} |-> Null]

Put(f, k, v) == [x \in DOMAIN f \cup {k} |-> IF x = k THEN v ELSE f[x]]

----------------------------------------------------------------------------
(* ReviewStore: the in-memory document and its mutators *)

FreshDoc ==
    [version |-> 1, cursors |-> EmptyMap, reviews |-> EmptyMap,
     totalIngested |-> 0, lastPollTimes |-> EmptyMap]

scheduleSave_Never(st) == st

\* scheduleSave(): arm the debounce timer unless one is armed already
scheduleSave(st) == [st EXCEPT !.saveTimer = TRUE]

hasReview_OnlyGenerated(d, id) ==
    id \in DOMAIN d.reviews /\ d.reviews[id].imageGenerated

hasReview_Never(d, id) == FALSE

hasReview(d, id) == id \in DOMAIN d.reviews

addReview_WrongKey(st, review, now) ==
    scheduleSave(
      [st EXCEPT !.data.reviews =
                     Put(@, <<review.source, "new">>,
                         [id |-> review.id, source |-> review.source,
                          rating |-> review.rating, reviewDate |-> review.reviewDate,
                          processedAt |-> now, imageGenerated |-> FALSE,
                          slackShared |-> FALSE]),
                 !.data.totalIngested = @ + 1,
                 !.dirty = TRUE])

addReview_NoCount(st, review, now) ==
    scheduleSave(
      [st EXCEPT !.data.reviews =
                     Put(@, review.id,
                         [id |-> review.id, source |-> review.source,
                          rating |-> review.rating, reviewDate |-> review.reviewDate,
                          processedAt |-> now, imageGenerated |-> FALSE,
                          slackShared |-> FALSE]),
                 !.dirty = TRUE])

addReview(st, review, now) ==
    scheduleSave(
      [st EXCEPT !.data.reviews =
                     Put(@, review.id,
                         [id |-> review.id, source |-> review.source,
                          rating |-> review.rating, reviewDate |-> review.reviewDate,
                          processedAt |-> now, imageGenerated |-> FALSE,
                          slackShared |-> FALSE]),
                 !.data.totalIngested = @ + 1,
                 !.dirty = TRUE])

\* markProcessed(id, {imageGenerated: true}) / markProcessed(id, {slackShared: true})
markProcessed(st, id, flag) ==
    IF id \notin DOMAIN st.data.reviews THEN st
    ELSE scheduleSave(
           [st EXCEPT !.data.reviews[id] =
                          IF flag = "imageGenerated"
                          THEN [@ EXCEPT !.imageGenerated = TRUE]
                          ELSE [@ EXCEPT !.slackShared = TRUE],
                      !.dirty = TRUE])

getCursor(d, source) ==
    IF source \in DOMAIN d.cursors THEN d.cursors[source] ELSE Null

setCursor_EverySource(st, source, cursor) ==
    scheduleSave([st EXCEPT !.data.cursors = Put(Put(@, "x", cursor), "y", cursor),
                            !.dirty = TRUE])

setCursor(st, source, cursor) ==
    scheduleSave([st EXCEPT !.data.cursors = Put(@, source, cursor), !.dirty = TRUE])

setLastPollTime(st, source, now) ==
    scheduleSave([st EXCEPT !.data.lastPollTimes = Put(@, source, now),
                            !.dirty = TRUE])

----------------------------------------------------------------------------
(* GenericAdapter.parseReviews: payload items to review records *)

\* Items a payload may hold.  id is the source-supplied identifier (Null when
\* the payload has none); rating is the raw value of the payload.
ItemNames == {"i1", "i2", "i3"}

ItemOf(n) ==
    CASE n = "i1" -> [id |-> Null, text |-> "T", rating |-> 2, date |-> 0]
      [] n = "i2" -> [id |-> "a",  text |-> "T", rating |-> 7, date |-> 0]
      [] n = "i3" -> [id |-> Null, text |-> "T", rating |-> 0, date |-> 0]

\* parseInt(item.rating) || 5
parsedRating(item) == IF item.rating = 0 THEN 5 ELSE item.rating

\* sha256(`${source}:${reviewerName}:${reviewText}:${rating}`).slice(0, 16),
\* an injective digest of the four fields
idHash(source, item) == <<"sha256", source, item.text, parsedRating(item)>>

parseItem(source, item) ==
    [id         |-> <<source, IF item.id # Null THEN <<item.id>> ELSE idHash(source, item)>>,
     source     |-> source,
     rating     |-> Min(Max(parsedRating(item), 1), 5),
     reviewDate |-> item.date]

\* rawData is the list of items; source is rawData.source || config.sourceName
parseReviews(source, items) ==
    [i \in 1..Len(items) |-> parseItem(source, ItemOf(items[i]))]

----------------------------------------------------------------------------
(* ReviewPipeline.process *)

NoResults == [new |-> 0, duplicate |-> 0, generated |-> 0, shared |-> 0, errors |-> <<>>]

NoRequest == [source |-> Null, raw |-> <<>>, h1 |-> <<>>, h2 |-> <<>>]

\* A call of process together with the route handler awaiting it: request is
\* what the route received, invoked whether it called pipeline.process, status
\* the HTTP status it answered with (0: no answer yet).  Kept for the
\* properties: accepted, the ids this call added; renderFailed, the ids whose
\* renderImage rejected; shareInvoked, the ids shareToSlack was called for;
\* shareFailed, the ids whose shareToSlack rejected.
IdleProc ==
    [pc |-> "idle", kind |-> Null, request |-> NoRequest, invoked |-> FALSE,
     input |-> <<>>, idx |-> 1, results |-> NoResults, accepted |-> {}, status |-> 0,
     renderFailed |-> {}, shareInvoked |-> {}, shareFailed |-> {}]

\* The for loop of process from record pr.idx on, up to the next await
\* (renderImage) or to the return.
RECURSIVE RunLoop(_, _, _)
RunLoop(st, pr, now) ==
    IF pr.idx > Len(pr.input)
    THEN [store |-> st, proc |-> [pr EXCEPT !.pc = "done", !.status = 200]]
    ELSE LET review == pr.input[pr.idx] IN
         IF hasReview(st.data, review.id)
         THEN RunLoop(st, [pr EXCEPT !.results.duplicate = @ + 1, !.idx = @ + 1], now)
         ELSE LET st2 == addReview(st, review, now)
                  pr2 == [pr EXCEPT !.results.new = @ + 1,
                                    !.accepted = @ \cup {review.id}]
              IN  IF opts.autoGenerate
                  THEN [store |-> st2, proc |-> [pr2 EXCEPT !.pc = "rendering"]]
                  ELSE RunLoop(st2, [pr2 EXCEPT !.idx = @ + 1], now)

\* minRatingForAutoShare: ingestionConfig.minRatingForAutoShare || 4, and
\* options.minRatingForAutoShare || 4 again in the constructor.  opts.minRating
\* is the configured value: <<>> when the configuration has none, <<v>> else.
minRatingForAutoShare ==
    IF opts.minRating = <<>> \/ opts.minRating[1] = 0 THEN 4 ELSE opts.minRating[1]

\* History kept for the properties, recorded when hist.track is set: the
\* call that returned last (its input, the reviews map before and after it,
\* its new counter), and for the call in flight the map it started from and
\* the call that had returned last when it started.
NoCall == [valid |-> FALSE, input |-> <<>>, before |-> EmptyMap, after |-> EmptyMap,
           new |-> 0]

Returned(h, r) ==
    IF h.track /\ r.proc.pc = "done"
    THEN [h EXCEPT !.lastDone =
              [valid |-> TRUE, input |-> r.proc.input, before |-> h.start.reviews,
               after |-> r.store.data.reviews, new |-> r.proc.results.new]]
    ELSE h

Step(p, r) ==
    /\ store' = r.store
    /\ procs' = [procs EXCEPT ![p] = r.proc]
    /\ hist' = Returned(hist, r)

\* await this.renderImage(...) resolved
RenderResolve(p) ==
    /\ procs[p].pc = "rendering"
    /\ LET pr     == procs[p]
           review == pr.input[pr.idx]
           st2    == markProcessed(store, review.id, "imageGenerated")
           pr2    == [pr EXCEPT !.results.generated = @ + 1]
       IN  IF opts.autoShare /\ review.rating >= minRatingForAutoShare
           THEN Step(p, [store |-> st2,
                         proc |-> [pr2 EXCEPT !.pc = "sharing",
                                              !.shareInvoked = @ \cup {review.id}]])
           ELSE Step(p, RunLoop(st2, [pr2 EXCEPT !.idx = @ + 1, !.pc = "running"], clock))
    /\ UNCHANGED <<pipelineEnv, schedVars, disk, renderVars>>

RenderReject_Aborts(p) ==
    /\ procs[p].pc = "rendering"
    /\ LET pr  == procs[p]
           pr2 == [pr EXCEPT !.results.errors =
                                 Append(@, [reviewId |-> pr.input[pr.idx].id,
                                            step |-> "generate"]),
                             !.renderFailed = @ \cup {pr.input[pr.idx].id},
                             !.pc = "done", !.status = 200]
       IN  Step(p, [store |-> store, proc |-> pr2])
    /\ UNCHANGED <<pipelineEnv, schedVars, disk, renderVars>>

\* await this.renderImage(...) rejected
RenderReject(p) ==
    /\ procs[p].pc = "rendering"
    /\ LET pr  == procs[p]
           pr2 == [pr EXCEPT !.results.errors =
                                 Append(@, [reviewId |-> pr.input[pr.idx].id,
                                            step |-> "generate"]),
                             !.renderFailed = @ \cup {pr.input[pr.idx].id},
                             !.idx = @ + 1, !.pc = "running"]
       IN  Step(p, RunLoop(store, pr2, clock))
    /\ UNCHANGED <<pipelineEnv, schedVars, disk, renderVars>>

\* await this.shareToSlack(...) resolved
ShareResolve(p) ==
    /\ procs[p].pc = "sharing"
    /\ LET pr  == procs[p]
           st2 == markProcessed(store, pr.input[pr.idx].id, "slackShared")
           pr2 == [pr EXCEPT !.results.shared = @ + 1, !.idx = @ + 1, !.pc = "running"]
       IN  Step(p, RunLoop(st2, pr2, clock))
    /\ UNCHANGED <<pipelineEnv, schedVars, disk, renderVars>>

ShareReject_OuterCatch(p) ==
    /\ procs[p].pc = "sharing"
    /\ LET pr  == procs[p]
           pr2 == [pr EXCEPT !.results.errors =
                                 Append(@, [reviewId |-> pr.input[pr.idx].id,
                                            step |-> "generate"]),
                             !.shareFailed = @ \cup {pr.input[pr.idx].id},
                             !.idx = @ + 1, !.pc = "running"]
       IN  Step(p, RunLoop(store, pr2, clock))
    /\ UNCHANGED <<pipelineEnv, schedVars, disk, renderVars>>

\* await this.shareToSlack(...) rejected
ShareReject(p) ==
    /\ procs[p].pc = "sharing"
    /\ LET pr  == procs[p]
           pr2 == [pr EXCEPT !.results.errors =
                                 Append(@, [reviewId |-> pr.input[pr.idx].id,
                                            step |-> "slack"]),
                             !.shareFailed = @ \cup {pr.input[pr.idx].id},
                             !.idx = @ + 1, !.pc = "running"]
       IN  Step(p, RunLoop(store, pr2, clock))
    /\ UNCHANGED <<pipelineEnv, schedVars, disk, renderVars>>

\* A route handler calls pipeline.process(input): the loop runs to its first
\* await or to the end.
BeginOn(st, p, kind, request, input) ==
    LET pr == [IdleProc EXCEPT !.pc = "running", !.kind = kind, !.request = request,
                               !.invoked = TRUE, !.input = input]
        r  == RunLoop(st, pr, clock)
        h  == IF hist.track
              THEN [hist EXCEPT !.start = st.data, !.prev = hist.lastDone]
              ELSE hist
    IN  /\ store' = r.store
        /\ procs' = [procs EXCEPT ![p] = r.proc]
        /\ hist' = Returned(h, r)

Begin(p, kind, request, input) == BeginOn(store, p, kind, request, input)

----------------------------------------------------------------------------
(* POST /api/ingestion/import (JSON) *)

\* A new request takes the first slot not in use
FreeProc(p) ==
    /\ procs[p].pc = "idle"
    /\ \A q \in DOMAIN procs : q < p => procs[q].pc # "idle"

Payloads == UNION {[1..n -> ItemNames] : n \in 0..MaxPayload}

\* body = {source, reviews: items}; reviews = genericAdapter.parseReviews(...)
Import(p, source, items) ==
    /\ FreeProc(p)
    /\ Begin(p, "import", [NoRequest EXCEPT !.source = source], parseReviews(source, items))
    /\ UNCHANGED <<pipelineEnv, schedVars, disk, renderVars>>

----------------------------------------------------------------------------
(* POST /api/ingestion/webhook/:source *)

\* The request body as sent: JSON text, token by token.  " " is whitespace
\* between tokens, which JSON allows anywhere.
Compact(items) ==
    <<"[">> \o items \o <<"]">>

Spaced(items) ==
    <<"[", " ">> \o items \o <<"]">>

\* bodyParser.json(): the value of the text, here the array of its items;
\* brackets and whitespace are not part of the value
JsonParse(raw) == SelectSeq(raw, LAMBDA t : t \in ItemNames)

\* JSON.stringify(value): the text of the array, without any whitespace
JsonStringify(value) == <<"[">> \o value \o <<"]">>

\* "sha256=" + hex(HMAC-SHA256(webhookSecret, bytes)); HMAC is taken to be
\* injective in the key and the message
Signature(key, bytes) == <<"sha256=", key, bytes>>

NoHeader == <<>>

\* The source every modelled request names; its adapter is a GenericAdapter
Source == "x"

\* Bodies and signature headers a sender may produce
WebhookItems == {<<>>, <<"i1">>}

RawBodies == {Compact(i) : i \in WebhookItems} \cup {Spaced(i) : i \in WebhookItems}

Headers(raw) ==
    {NoHeader, Signature("s", raw), Signature("s", JsonStringify(JsonParse(raw))),
     Signature("t", raw)}

signedBody(request) == JsonStringify(JsonParse(request.raw))

Webhook(p, source, raw, h1, h2) ==
    LET request  == [source |-> source, raw |-> raw, h1 |-> h1, h2 |-> h2]
        \* req.get("x-webhook-signature") || req.get("x-hub-signature-256") || ""
        sig      == IF h1 # NoHeader THEN h1 ELSE h2
        expected == Signature(webhookSecret, signedBody(request))
    IN  /\ procs[p].pc = "idle"
        /\ IF webhookSecret # Null /\ sig # expected
           THEN /\ procs' = [procs EXCEPT ![p] =
                                [IdleProc EXCEPT !.pc = "done", !.kind = "webhook",
                                                 !.request = request, !.status = 401]]
                /\ hist' = IF hist.track THEN [hist EXCEPT !.start = store.data] ELSE hist
                /\ UNCHANGED store
           ELSE Begin(p, "webhook", request,
                      parseReviews(source, JsonParse(raw)))
        /\ UNCHANGED <<pipelineEnv, schedVars, disk, renderVars>>

----------------------------------------------------------------------------
(* The ingestion routes with the pipeline *)

Procs == 1..MaxProcs

\* The store after load() found no file
EmptyStore == [data |-> FreshDoc, dirty |-> TRUE, saveTimer |-> TRUE]

NoHist == [track |-> FALSE, lastDone |-> NoCall, start |-> FreshDoc, prev |-> NoCall]

\* The parts of the service a specification leaves alone stay as constructed
Unused == "unused"

IdleRest ==
    /\ sched = Unused /\ polls = <<>>
    /\ disk = Unused
    /\ imageCache = <<>> /\ browser = Unused /\ renders = <<>> /\ batch = Unused

InitPipeline ==
    /\ IdleRest
    /\ store = EmptyStore
    /\ opts \in [autoGenerate : BOOLEAN, autoShare : BOOLEAN, minRating : {<<>>, <<0>>, <<2>>}]
    /\ webhookSecret = Null
    /\ procs = [p \in Procs |-> IdleProc]
    /\ clock = 0
    /\ hist = NoHist

\* res.json(...) is sent and the handler is gone
Respond(p) ==
    /\ procs[p].pc = "done"
    /\ procs' = [procs EXCEPT ![p] = IdleProc]
    /\ UNCHANGED <<store, pipelineEnv, hist, schedVars, disk, renderVars>>

\* Imports running concurrently: a second request may arrive while the first
\* is suspended in a render or a share.
NextPipeline ==
    \/ \E p \in Procs, items \in Payloads : Import(p, Source, items)
    \/ \E p \in Procs : Respond(p)
    \/ \E p \in Procs : RenderResolve(p)
    \/ \E p \in Procs : RenderReject(p)
    \/ \E p \in Procs : ShareResolve(p)
    \/ \E p \in Procs : ShareReject(p)

SpecPipeline == InitPipeline /\ [][NextPipeline]_vars

\* Imports served one after the other (each answered before the next one
\* arrives), with the history of the calls recorded.
InitImport ==
    /\ IdleRest
    /\ store = EmptyStore
    /\ opts \in [autoGenerate : BOOLEAN, autoShare : BOOLEAN, minRating : {<<>>, <<0>>, <<2>>}]
    /\ webhookSecret = Null
    /\ procs = [p \in Procs |-> IdleProc]
    /\ clock = 0
    /\ hist = [NoHist EXCEPT !.track = TRUE]

NextImport ==
    \/ \E items \in Payloads : Import(1, Source, items)
    \/ Respond(1)
    \/ RenderResolve(1)
    \/ RenderReject(1)
    \/ ShareResolve(1)
    \/ ShareReject(1)

SpecImport == InitImport /\ [][NextImport]_vars

\* Webhook deliveries served one after the other
NextWebhook ==
    \/ \E raw \in RawBodies :
          \E h1 \in Headers(raw), h2 \in Headers(raw) : Webhook(1, Source, raw, h1, h2)
    \/ Respond(1)
    \/ RenderResolve(1)
    \/ RenderReject(1)
    \/ ShareResolve(1)
    \/ ShareReject(1)

InitWebhook ==
    /\ IdleRest
    /\ store = EmptyStore
    /\ opts \in [autoGenerate : BOOLEAN, autoShare : BOOLEAN, minRating : {<<>>, <<0>>, <<2>>}]
    /\ webhookSecret \in {Null, "s"}
    /\ procs = [p \in Procs |-> IdleProc]
    /\ clock = 0
    /\ hist = [NoHist EXCEPT !.track = TRUE]

SpecWebhook == InitWebhook /\ [][NextWebhook]_vars

\* Date.now() moves on
Tick ==
    /\ clock < MaxClock
    /\ clock' = clock + 1
    /\ UNCHANGED <<store, opts, procs, webhookSecret, hist, schedVars, disk, renderVars>>

\* adapter.parseReviews(req.body) of the adapter the webhook route finds for
\* :source: a YelpAdapter ("yelp"), a BBBAdapter ("bbb"), or genericAdapter
\* when no adapter has that name
parseReviewsOf(source, items) ==
    IF source \notin {"yelp", "bbb"} THEN parseReviews(source, items)
    ELSE [i \in 1..Len(items) |->
            LET r == ItemOf(items[i])
            IN  [id         |-> <<source, IF r.id # Null THEN <<r.id>> ELSE <<"now", clock>>>>,
                 source     |-> source,
                 rating     |-> IF r.rating # 0 THEN r.rating ELSE 5,
                 reviewDate |-> r.date]]

\* POST /api/ingestion/webhook/:source, no webhookSecret configured
WebhookTo(p, source, items) ==
    /\ FreeProc(p)
    /\ Begin(p, "webhook", [NoRequest EXCEPT !.source = source, !.raw = Compact(items)],
             parseReviewsOf(source, items))
    /\ UNCHANGED <<pipelineEnv, schedVars, disk, renderVars>>

\* Webhook deliveries of at most one item for a Yelp adapter, a BBB adapter and
\* an unknown source, autoGenerate off, the clock moving between them
InitAdapters ==
    /\ IdleRest
    /\ store = EmptyStore
    /\ opts = [autoGenerate |-> FALSE, autoShare |-> FALSE, minRating |-> <<>>]
    /\ webhookSecret = Null
    /\ procs = [p \in Procs |-> IdleProc]
    /\ clock = 0
    /\ hist = NoHist

NextAdapters ==
    \/ \E source \in {"yelp", "bbb", Source}, items \in {pl \in Payloads : Len(pl) <= 1} :
          WebhookTo(1, source, items)
    \/ Respond(1)
    \/ Tick

SpecAdapters == InitAdapters /\ [][NextAdapters]_vars

----------------------------------------------------------------------------
(* PollScheduler *)

MaxFailures == 2    \* consecutive failures counted per adapter
MaxStarts   == 1    \* start() calls that find the scheduler stopped

MAX_BACKOFF_MS == 7200000

Names == {"x", "y"}

RECURSIVE Pow2(_)
Pow2(n) == IF n = 0 THEN 1 ELSE 2 * Pow2(n - 1)

\* this.adapters.find(a => a.name === name) exists and is enabled
isEnabled(sc, name) == sc.adapters[name].enabled

\* (adapter.config.pollIntervalMinutes || globalIntervalMinutes || 15) * 60 * 1000
intervalMs(adapter, globalIntervalMinutes) ==
    (IF adapter.pollIntervalMinutes # 0 THEN adapter.pollIntervalMinutes
     ELSE IF globalIntervalMinutes # 0 THEN globalIntervalMinutes
     ELSE 15) * 60 * 1000

getEffectiveInterval(sc, name, baseMs) ==
    LET fails == sc.failures[name]
    IN  IF fails = 0 THEN baseMs ELSE Min(baseMs * Pow2(fails), MAX_BACKOFF_MS)

locked_Never(sc, name) == FALSE

\* this.locks.get(adapterName)
locked(sc, name) == sc.locks[name]

IdlePoll == [pc |-> "idle", name |-> Null, cursor |-> Null, fetched |-> 0,
             result |-> Null]

\* pollOnce(name) from its call to its first await (or to its return, when
\* there is none): the scheduler and the call record it leaves
pollOnce(sc, name) ==
    LET call == [IdlePoll EXCEPT !.name = name]
    IN  IF ~isEnabled(sc, name)
        THEN [sched |-> sc, poll |-> [call EXCEPT !.pc = "done", !.result = "notfound"]]
        ELSE IF locked(sc, name)
        THEN [sched |-> sc, poll |-> [call EXCEPT !.pc = "done", !.result = "skipped"]]
        ELSE [sched |-> [sc EXCEPT !.locks[name] = TRUE],
              poll  |-> [call EXCEPT !.pc = "fetching", !.fetched = 1,
                                     !.cursor = getCursor(store.data, name)]]

\* A new call takes the first slot not in use
FreeSlot(c) ==
    /\ polls[c].pc = "idle"
    /\ \A d \in DOMAIN polls : d < c => polls[d].pc # "idle"

\* The staggers of one start() call: the enabled adapters in list order, 5000 ms
\* apart
Order(name) == IF name = "x" THEN 0 ELSE 1

Staggers(sc, globalIntervalMinutes) ==
    LET on == {n \in Names : sc.adapters[n].enabled}
    IN  {[name |-> n, gen |-> sc.starts + 1, global |-> globalIntervalMinutes,
          intervalMs |-> intervalMs(sc.adapters[n], globalIntervalMinutes),
          staggerMs |-> 5000 * Cardinality({m \in on : Order(m) < Order(n)})] : n \in on}

\* start(globalIntervalMinutes): the scheduler it leaves
start(sc, globalIntervalMinutes) ==
    IF sc.running THEN sc
    ELSE [sc EXCEPT !.running = TRUE, !.starts = @ + 1,
                    !.pending = @ \cup Staggers(sc, globalIntervalMinutes)]

Start(globalIntervalMinutes) ==
    /\ sched.starts < MaxStarts
    /\ sched' = start(sched, globalIntervalMinutes)
    /\ UNCHANGED <<store, procs, hist, pipelineEnv, polls, disk, renderVars>>

\* stop(): clears the intervals the timers table holds, and the table
\* (timers[n] is the set of the at most one interval recorded for n)
Stop ==
    /\ sched' = [sched EXCEPT !.running = FALSE,
                              !.intervals = @ \ UNION {sched.timers[n] : n \in Names},
                              !.timers = [n \in Names |-> {}]]
    /\ UNCHANGED <<store, procs, hist, pipelineEnv, polls, disk, renderVars>>

\* The setTimeout callback of start(): first poll, then setInterval with the
\* interval getEffectiveInterval gives now
StaggerFire(s, c) ==
    /\ s \in sched.pending
    /\ \A t \in sched.pending : t.gen = s.gen => t.staggerMs >= s.staggerMs
    /\ FreeSlot(c)
    /\ LET r     == pollOnce(sched, s.name)
           timer == [name |-> s.name, gen |-> s.gen, base |-> s.intervalMs,
                     period |-> getEffectiveInterval(r.sched, s.name, s.intervalMs)]
       IN  /\ sched' = [r.sched EXCEPT !.pending = @ \ {s},
                                       !.intervals = @ \cup {timer},
                                       !.timers[s.name] = {timer}]
           /\ polls' = [polls EXCEPT ![c] = r.poll]
    /\ UNCHANGED <<store, procs, hist, pipelineEnv, disk, renderVars>>

\* A setInterval callback, period ms after the timer-driven poll before it
IntervalFire(i, c) ==
    /\ i \in sched.intervals
    /\ FreeSlot(c)
    /\ LET r == pollOnce(sched, i.name)
       IN  /\ sched' = r.sched
           /\ polls' = [polls EXCEPT ![c] = r.poll]
    /\ UNCHANGED <<store, procs, hist, pipelineEnv, disk, renderVars>>

\* POST /api/ingestion/poll/:source
PollRoute(c, name) ==
    /\ FreeSlot(c)
    /\ LET r == pollOnce(sched, name)
       IN  /\ sched' = r.sched
           /\ polls' = [polls EXCEPT ![c] = r.poll]
    /\ UNCHANGED <<store, procs, hist, pipelineEnv, disk, renderVars>>

\* What a fetch may resolve with
FetchedItems == {<<>>, <<"i2">>}
Cursors      == {Null, "c1"}

pollSucceeded_KeepsLock(sc, name) == [sc EXCEPT !.failures[name] = 0]

\* try-block completed: this.failures.set(name, 0); finally releases the lock
pollSucceeded(sc, name) == [sc EXCEPT !.failures[name] = 0, !.locks[name] = FALSE]

\* await adapter.fetchReviews(cursor) resolved with {reviews, cursor: newCursor}
FetchResolve(c, items, newCursor) ==
    /\ polls[c].pc = "fetching"
    /\ LET name    == polls[c].name
           reviews == parseReviews(name, items)
           st1     == IF newCursor # Null /\ newCursor # polls[c].cursor
                      THEN setCursor(store, name, newCursor) ELSE store
           st2     == setLastPollTime(st1, name, clock)
       IN  IF Len(reviews) > 0
           THEN /\ BeginOn(st2, c, "poll", [NoRequest EXCEPT !.source = name], reviews)
                /\ polls' = [polls EXCEPT ![c].pc = "processing"]
                /\ UNCHANGED sched
           ELSE /\ store' = st2
                /\ sched' = pollSucceeded(sched, name)
                /\ polls' = [polls EXCEPT ![c].pc = "done", ![c].result = "ok",
                                          ![c].cursor = Null]
                /\ UNCHANGED <<procs, hist>>
    /\ UNCHANGED <<pipelineEnv, disk, renderVars>>

\* await this.pipeline.process(reviews) resolved
ProcessResolve(c) ==
    /\ polls[c].pc = "processing"
    /\ procs[c].pc = "done"
    /\ sched' = pollSucceeded(sched, polls[c].name)
    /\ polls' = [polls EXCEPT ![c].pc = "done", ![c].result = "ok", ![c].cursor = Null]
    /\ procs' = [procs EXCEPT ![c] = IdleProc]
    /\ UNCHANGED <<store, hist, pipelineEnv, disk, renderVars>>

FetchReject_CountsNothing(c) ==
    /\ polls[c].pc = "fetching"
    /\ sched' = [sched EXCEPT !.locks[polls[c].name] = FALSE]
    /\ polls' = [polls EXCEPT ![c].pc = "done", ![c].result = "error", ![c].cursor = Null]
    /\ UNCHANGED <<store, procs, hist, pipelineEnv, disk, renderVars>>

\* await adapter.fetchReviews(cursor) rejected: catch counts the failure and
\* rethrows, finally releases the lock
FetchReject(c) ==
    /\ polls[c].pc = "fetching"
    /\ sched.failures[polls[c].name] < MaxFailures
    /\ sched' = [sched EXCEPT !.failures[polls[c].name] = @ + 1,
                              !.locks[polls[c].name] = FALSE]
    /\ polls' = [polls EXCEPT ![c].pc = "done", ![c].result = "error", ![c].cursor = Null]
    /\ UNCHANGED <<store, procs, hist, pipelineEnv, disk, renderVars>>

\* The caller has the outcome (the timer callbacks drop it)
PollReturn(c) ==
    /\ polls[c].pc = "done"
    /\ polls' = [polls EXCEPT ![c] = IdlePoll]
    /\ UNCHANGED <<store, procs, hist, pipelineEnv, sched, disk, renderVars>>

\* x is configured with pollIntervalMinutes 60, y without one; y may be disabled
Adapter == [enabled : BOOLEAN, pollIntervalMinutes : {0, 60}]

NewScheduler(adapters) ==
    [adapters |-> adapters, running |-> FALSE, starts |-> 0,
     pending |-> {}, intervals |-> {}, timers |-> [n \in Names |-> {}],
     locks |-> [n \in Names |-> FALSE], failures |-> [n \in Names |-> 0]]

InitPoll ==
    /\ store = EmptyStore
    /\ opts = [autoGenerate |-> FALSE, autoShare |-> FALSE, minRating |-> <<>>]
    /\ webhookSecret = Null
    /\ procs = [p \in Procs |-> IdleProc]
    /\ clock = 0
    /\ hist = NoHist
    /\ \E a \in [Names -> Adapter] :
          /\ a["x"].enabled /\ a["x"].pollIntervalMinutes = 60
          /\ a["y"].pollIntervalMinutes = 0
          /\ sched = NewScheduler(a)
    /\ polls = [c \in Procs |-> IdlePoll]
    /\ disk = Unused
    /\ imageCache = <<>> /\ browser = Unused /\ renders = <<>> /\ batch = Unused

NextPoll ==
    \/ \E g \in {0} : Start(g)
    \/ Stop
    \/ \E s \in sched.pending, c \in Procs : StaggerFire(s, c)
    \/ \E i \in sched.intervals, c \in Procs : IntervalFire(i, c)
    \/ \E c \in Procs, name \in Names : PollRoute(c, name)
    \/ \E c \in Procs, items \in FetchedItems, cur \in Cursors : FetchResolve(c, items, cur)
    \/ \E c \in Procs : FetchReject(c)
    \/ \E c \in Procs : ProcessResolve(c)
    \/ \E c \in Procs : PollReturn(c)

SpecPoll == InitPoll /\ [][NextPoll]_vars

\* The scheduler alone, over its configurations: each adapter with a poll
\* interval of 5 or 60 minutes or none, the global interval 10 or 30 minutes
\* or none; fetches return no reviews or fail
InitStart ==
    /\ store = EmptyStore
    /\ opts = [autoGenerate |-> FALSE, autoShare |-> FALSE, minRating |-> <<>>]
    /\ webhookSecret = Null
    /\ procs = [p \in Procs |-> IdleProc]
    /\ clock = 0
    /\ hist = NoHist
    /\ \E a \in [Names -> [enabled : BOOLEAN, pollIntervalMinutes : {0, 5, 60}]] :
          /\ a["x"].enabled
          /\ sched = NewScheduler(a)
    /\ polls = [c \in Procs |-> IdlePoll]
    /\ disk = Unused
    /\ imageCache = <<>> /\ browser = Unused /\ renders = <<>> /\ batch = Unused

NextStart ==
    \/ \E g \in {0, 10, 30} : Start(g)
    \/ Stop
    \/ \E s \in sched.pending, c \in Procs : StaggerFire(s, c)
    \/ \E i \in sched.intervals, c \in Procs : IntervalFire(i, c)
    \/ \E c \in Procs : FetchResolve(c, <<>>, Null)
    \/ \E c \in Procs : FetchReject(c)
    \/ \E c \in Procs : PollReturn(c)

SpecStart == InitStart /\ [][NextStart]_vars

\* The scheduler started again after a stop: both adapters enabled, fetches
\* return no reviews or fail
MaxRestarts == 2    \* start() calls that find the scheduler stopped

StartAgain(globalIntervalMinutes) ==
    /\ sched.starts < MaxRestarts
    /\ sched' = start(sched, globalIntervalMinutes)
    /\ UNCHANGED <<store, procs, hist, pipelineEnv, polls, disk, renderVars>>

InitTimers ==
    /\ store = EmptyStore
    /\ opts = [autoGenerate |-> FALSE, autoShare |-> FALSE, minRating |-> <<>>]
    /\ webhookSecret = Null
    /\ procs = [p \in Procs |-> IdleProc]
    /\ clock = 0
    /\ hist = NoHist
    /\ sched = NewScheduler([n \in Names |-> [enabled |-> TRUE, pollIntervalMinutes |-> 0]])
    /\ polls = [c \in Procs |-> IdlePoll]
    /\ disk = Unused
    /\ imageCache = <<>> /\ browser = Unused /\ renders = <<>> /\ batch = Unused

NextTimers ==
    \/ StartAgain(0)
    \/ Stop
    \/ \E s \in sched.pending, c \in Procs : StaggerFire(s, c)
    \/ \E i \in sched.intervals, c \in Procs : IntervalFire(i, c)
    \/ \E c \in Procs : FetchResolve(c, <<>>, Null)
    \/ \E c \in Procs : FetchReject(c)
    \/ \E c \in Procs : PollReturn(c)

SpecTimers == InitTimers /\ [][NextTimers]_vars

----------------------------------------------------------------------------
(* ReviewStore persistence: save(), load(), and the three files *)

\* File contents.  A file holds the JSON text of a document, or a torn prefix
\* of one when the process died inside the write; Absent: no such file.
Absent == <<>>
Torn   == <<"torn">>

\* JSON.stringify(this.data, null, 2)
Serialise(doc) == <<"json", doc>>

\* JSON.parse(text); ok is FALSE when it throws
Parse(text) ==
    IF Len(text) = 2 /\ text[1] = "json"
    THEN [ok |-> TRUE, value |-> text[2]]
    ELSE [ok |-> FALSE]

load_AnyVersion(main) ==
    LET parsed == IF main # Absent THEN Parse(main) ELSE [ok |-> FALSE]
    IN  IF ~parsed.ok
        THEN [data |-> FreshDoc, dirty |-> TRUE, saveTimer |-> TRUE]
        ELSE [data |-> parsed.value, dirty |-> FALSE, saveTimer |-> FALSE]

\* load() on a store just constructed, given the content of filePath
load(main) ==
    LET parsed == IF main # Absent THEN Parse(main) ELSE [ok |-> FALSE]
    IN  IF ~parsed.ok
        THEN [data |-> FreshDoc, dirty |-> TRUE, saveTimer |-> TRUE]
        ELSE IF parsed.value.version # 1
        THEN [data |-> FreshDoc, dirty |-> TRUE, saveTimer |-> TRUE]
        ELSE [data |-> parsed.value, dirty |-> FALSE, saveTimer |-> FALSE]

writeTmp_InPlace(d, text) == [d EXCEPT !.main = text, !.tmp = text]

\* fs.writeFileSync(tmp, text)
writeTmp(d, text) == [d EXCEPT !.tmp = text]

\* if (fs.existsSync(filePath)) fs.copyFileSync(filePath, bak)
copyBak(d) == IF d.main # Absent THEN [d EXCEPT !.bak = d.main] ELSE d

\* fs.renameSync(tmp, filePath)
renameTmp(d) == [d EXCEPT !.main = d.tmp, !.tmp = Absent]

\* disk.savePc: how far the save in progress has got ("idle": none);
\* disk.up: the process is running.
\* Kept for the properties: pre (content of filePath when the latest save
\* began), outcome (how the latest save ended) and fresh (the store is as load
\* left it).
NoFiles ==
    [main |-> Absent, tmp |-> Absent, bak |-> Absent, savePc |-> "idle", up |-> TRUE,
     pre |-> Absent, outcome |-> "none", fresh |-> TRUE]

Ready == disk.up /\ disk.savePc = "idle"

\* A mutation between saves: setCursor
Mutate(source, cursor) ==
    /\ Ready
    /\ store' = setCursor(store, source, cursor)
    /\ disk' = [disk EXCEPT !.fresh = FALSE]
    /\ UNCHANGED <<procs, hist, pipelineEnv, schedVars, renderVars>>

\* save() called (debounce timer, or shutdown): up to and including the write
\* of tmp
SaveWrite ==
    /\ Ready
    /\ IF ~store.dirty
       THEN /\ store' = [store EXCEPT !.saveTimer = FALSE]
            /\ UNCHANGED disk
       ELSE /\ store' = [store EXCEPT !.saveTimer = FALSE]
            /\ disk' = [writeTmp(disk, Serialise(store.data))
                           EXCEPT !.savePc = "wrote", !.pre = disk.main,
                                  !.outcome = "none", !.fresh = FALSE]
    /\ UNCHANGED <<procs, hist, pipelineEnv, schedVars, renderVars>>

SaveCopy ==
    /\ disk.up /\ disk.savePc = "wrote"
    /\ disk' = [copyBak(disk) EXCEPT !.savePc = "copied"]
    /\ UNCHANGED <<store, procs, hist, pipelineEnv, schedVars, renderVars>>

SaveRename ==
    /\ disk.up /\ disk.savePc = "copied"
    /\ disk' = [renameTmp(disk) EXCEPT !.savePc = "idle", !.outcome = "completed"]
    /\ store' = [store EXCEPT !.dirty = FALSE]
    /\ UNCHANGED <<procs, hist, pipelineEnv, schedVars, renderVars>>

SaveThrow_ClearsDirty ==
    /\ disk.up
    /\ disk.savePc \in {"wrote", "copied"}
    /\ disk' = [disk EXCEPT !.savePc = "idle", !.outcome = "failed"]
    /\ store' = [store EXCEPT !.dirty = FALSE]
    /\ UNCHANGED <<procs, hist, pipelineEnv, schedVars, renderVars>>

\* A file operation throws: the catch logs, dirty stays set.  A write that
\* throws may leave a torn tmp.
SaveThrow ==
    /\ disk.up
    /\ \/ /\ disk.savePc \in {"wrote", "copied"}
          /\ disk' = [disk EXCEPT !.savePc = "idle", !.outcome = "failed"]
          /\ UNCHANGED store
       \/ /\ disk.savePc = "idle" /\ store.dirty
          /\ \E t \in {disk.tmp, Torn} :
                disk' = [disk EXCEPT !.tmp = t, !.pre = disk.main,
                                     !.outcome = "failed", !.fresh = FALSE]
          /\ store' = [store EXCEPT !.saveTimer = FALSE]
    /\ UNCHANGED <<procs, hist, pipelineEnv, schedVars, renderVars>>

\* The process dies: between two file operations of a save, inside the write
\* of tmp, inside the copy to bak, or outside a save
Crash ==
    /\ disk.up
    /\ \/ /\ disk.savePc \in {"wrote", "copied"}
          /\ disk' = [disk EXCEPT !.up = FALSE, !.savePc = "idle",
                                  !.outcome = "interrupted"]
       \/ /\ disk.savePc = "wrote" /\ disk.main # Absent
          /\ disk' = [disk EXCEPT !.up = FALSE, !.savePc = "idle", !.bak = Torn,
                                  !.outcome = "interrupted"]
       \/ /\ disk.savePc = "idle" /\ store.dirty
          /\ disk' = [disk EXCEPT !.up = FALSE, !.tmp = Torn, !.pre = disk.main,
                                  !.outcome = "interrupted"]
       \/ /\ disk.savePc = "idle"
          /\ disk' = [disk EXCEPT !.up = FALSE]
    /\ UNCHANGED <<store, procs, hist, pipelineEnv, schedVars, renderVars>>

\* A new process: new ReviewStore(path).load()
Restart ==
    /\ ~disk.up
    /\ store' = load(disk.main)
    /\ disk' = [disk EXCEPT !.up = TRUE, !.fresh = TRUE]
    /\ UNCHANGED <<procs, hist, pipelineEnv, schedVars, renderVars>>

InitSave ==
    /\ store = load(Absent)
    /\ disk = NoFiles
    /\ opts = [autoGenerate |-> FALSE, autoShare |-> FALSE, minRating |-> <<>>]
    /\ webhookSecret = Null
    /\ procs = <<>>
    /\ clock = 0
    /\ hist = NoHist
    /\ sched = Unused /\ polls = <<>>
    /\ imageCache = <<>> /\ browser = Unused /\ renders = <<>> /\ batch = Unused

NextSave ==
    \/ \E c \in {"c1", "c2"} : Mutate("x", c)
    \/ SaveWrite
    \/ SaveCopy
    \/ SaveRename
    \/ SaveThrow
    \/ Crash
    \/ Restart

SpecSave == InitSave /\ [][NextSave]_vars

\* What filePath may hold when the process starts: nothing, text that does not
\* parse, a document of another version, a version-1 document
Files ==
    {Absent, Torn, Serialise([FreshDoc EXCEPT !.version = 2]),
     Serialise([FreshDoc EXCEPT !.cursors = Put(EmptyMap, "x", "c0")])}

InitLoad ==
    /\ \E main \in Files :
          /\ store = load(main)
          /\ disk = [NoFiles EXCEPT !.main = main]
    /\ opts = [autoGenerate |-> FALSE, autoShare |-> FALSE, minRating |-> <<>>]
    /\ webhookSecret = Null
    /\ procs = <<>>
    /\ clock = 0
    /\ hist = NoHist
    /\ sched = Unused /\ polls = <<>>
    /\ imageCache = <<>> /\ browser = Unused /\ renders = <<>> /\ batch = Unused

SpecLoad == InitLoad /\ [][NextSave]_vars

----------------------------------------------------------------------------
(* ReviewStore: its methods called in any order *)

MaxIngested == 3    \* addReview calls counted in totalIngested

\* save() from its call to its return; ok: the file operations succeed (when
\* one throws, the catch logs and dirty stays set)
save(st, d, ok) ==
    LET st1 == [st EXCEPT !.saveTimer = FALSE]
    IN  IF ~st.dirty THEN [store |-> st1, disk |-> d]
        ELSE IF ok
        THEN [store |-> [st1 EXCEPT !.dirty = FALSE],
              disk  |-> renameTmp(copyBak(writeTmp(d, Serialise(st.data))))]
        ELSE [store |-> st1, disk |-> d]

shutdown_TimerOnly(st, d, ok) == [store |-> [st EXCEPT !.saveTimer = FALSE], disk |-> d]

\* shutdown(): clear the timer, then save()
shutdown(st, d, ok) == save([st EXCEPT !.saveTimer = FALSE], d, ok)

\* hist, in this specification: the method called last, the id it was given,
\* whether it returned normally, and for addReview and shutdown the store the
\* call found; failed, whether the save that wrote last (a save of a clean
\* store writes nothing) has failed
Called(op, id, ok) ==
    [op |-> op, id |-> id, ok |-> ok,
     before |-> IF op \in {"addReview", "shutdown"} THEN store ELSE EmptyStore,
     failed |-> IF op \in {"save", "shutdown"} /\ store.dirty THEN ~ok ELSE hist.failed]

\* store.addReview(review), with any record, stored already or not
AddReview(name) ==
    /\ store.data.totalIngested < MaxIngested
    /\ LET review == parseItem(Source, ItemOf(name))
       IN  /\ store' = addReview(store, review, clock)
           /\ hist' = Called("addReview", review.id, TRUE)
    /\ UNCHANGED <<disk, procs, pipelineEnv, schedVars, renderVars>>

\* store.markProcessed(id, flags)
MarkProcessed(name, flag) ==
    /\ LET id == parseItem(Source, ItemOf(name)).id
       IN  /\ store' = markProcessed(store, id, flag)
           /\ hist' = Called("markProcessed", id, TRUE)
    /\ UNCHANGED <<disk, procs, pipelineEnv, schedVars, renderVars>>

\* The debounce timer fires: this.saveTimer = null; this.save()
Save(ok) ==
    /\ store.saveTimer
    /\ LET r == save(store, disk, ok)
       IN  store' = r.store /\ disk' = r.disk
    /\ hist' = Called("save", Null, ok)
    /\ UNCHANGED <<procs, pipelineEnv, schedVars, renderVars>>

\* store.shutdown()
Shutdown(ok) ==
    /\ LET r == shutdown(store, disk, ok)
       IN  store' = r.store /\ disk' = r.disk
    /\ hist' = Called("shutdown", Null, ok)
    /\ UNCHANGED <<procs, pipelineEnv, schedVars, renderVars>>

InitStore ==
    /\ store = load(Absent)
    /\ disk = NoFiles
    /\ opts = [autoGenerate |-> FALSE, autoShare |-> FALSE, minRating |-> <<>>]
    /\ webhookSecret = Null
    /\ procs = <<>>
    /\ clock = 0
    /\ hist = [op |-> "load", id |-> Null, ok |-> TRUE, before |-> EmptyStore,
               failed |-> FALSE]
    /\ sched = Unused /\ polls = <<>>
    /\ imageCache = <<>> /\ browser = Unused /\ renders = <<>> /\ batch = Unused

NextStore ==
    \/ \E name \in {"i1", "i2"} : AddReview(name)
    \/ \E name \in {"i1", "i2"}, flag \in {"imageGenerated", "slackShared"} :
          MarkProcessed(name, flag)
    \/ \E ok \in BOOLEAN : Save(ok)
    \/ \E ok \in BOOLEAN : Shutdown(ok)

SpecStore == InitStore /\ [][NextStore]_vars

----------------------------------------------------------------------------
(* Render side: image cache, renderImage, POST /generate *)

MaxRenders  == 2    \* POST /generate requests in flight at the same time
MaxLaunches == 2    \* browser launches

\* const IMAGE_CACHE_MAX = 100, scaled down so that the cache fills up
IMAGE_CACHE_MAX == 3

SIZE_PRESETS ==
    [square    |-> [width |-> 1080, height |-> 1080],
     portrait  |-> [width |-> 1080, height |-> 1350],
     story     |-> [width |-> 1080, height |-> 1920],
     landscape |-> [width |-> 1200, height |-> 630]]

DEFAULT_SIZE == "square"

\* A request body is the sequence of its <<field, value>> pairs, in the order
\* the JSON text gives them.  reviewer_name and review_text are the same valid
\* strings in every body and are left out.
Get(params, field, default) ==
    IF \E i \in DOMAIN params : params[i][1] = field
    THEN params[CHOOSE i \in DOMAIN params : params[i][1] = field][2]
    ELSE default

Has(params, field) == \E i \in DOMAIN params : params[i][1] = field

\* JSON.stringify(params): the members in insertion order
Stringify(params) == <<"{">> \o params \o <<"}">>

\* sha256(...).digest("hex"), taken to be injective
cacheKey(params) == <<"sha256", Stringify(params)>>

CacheIndex(cache, key) == CHOOSE i \in DOMAIN cache : cache[i].key = key

CacheHas(cache, key) == \E i \in DOMAIN cache : cache[i].key = key

Without(cache, i) == SubSeq(cache, 1, i - 1) \o SubSeq(cache, i + 1, Len(cache))

\* cacheGet(key): the entry, moved to the end of the map when present
cacheGet(cache, key) ==
    IF ~CacheHas(cache, key)
    THEN [hit |-> FALSE, cache |-> cache]
    ELSE LET i == CacheIndex(cache, key)
         IN  [hit |-> TRUE, value |-> cache[i].value,
              cache |-> Append(Without(cache, i), cache[i])]

\* cacheSet(key, value): drop the first entry of a full map, then Map.set,
\* which keeps the position of a key that is present
cacheSet(cache, key, value) ==
    LET room == IF Len(cache) >= IMAGE_CACHE_MAX THEN Tail(cache) ELSE cache
    IN  IF CacheHas(room, key)
        THEN [room EXCEPT ![CacheIndex(room, key)].value = value]
        ELSE Append(room, [key |-> key, value |-> value])

\* validateGenerateInput(body): the rating and size validation
validateGenerateInput(body) ==
    (IF Get(body, "rating", 0) \in 1..5 THEN {} ELSE {"rating"})
    \cup (IF Has(body, "size") /\ Get(body, "size", Null) \notin DOMAIN SIZE_PRESETS
          THEN {"size"} ELSE {})

\* SIZE_PRESETS[size] || SIZE_PRESETS[DEFAULT_SIZE]
dimensions(params) ==
    LET size == Get(params, "size", DEFAULT_SIZE)
    IN  IF size \in DOMAIN SIZE_PRESETS THEN SIZE_PRESETS[size]
        ELSE SIZE_PRESETS[DEFAULT_SIZE]

formatOf(params) == Get(params, "format", "png")

\* page.screenshot(...): the image of the filled template at the clip size
screenshot(params) ==
    <<"image", formatOf(params), dimensions(params), Get(params, "rating", 0)>>

\* width and height are undefined (0) in a result that came from the cache
NoResult ==
    [ok |-> FALSE, buffer |-> <<>>, format |-> Null, width |-> 0, height |-> 0,
     fromCache |-> FALSE]

NoResponse == [status |-> 0, width |-> 0, height |-> 0, xcache |-> Null, body |-> <<>>]

\* leased: the call has opened a page; known: an entry with the same fields was
\* in the cache when the call was made, and knownBuffer its bytes (both kept
\* for the properties); posts: the POSTs to callback_url the call has made
IdleRender ==
    [pc |-> "idle", caller |-> Null, index |-> 0, params |-> <<>>, nocache |-> FALSE,
     key |-> <<>>, leased |-> FALSE, known |-> FALSE, knownBuffer |-> <<>>,
     result |-> NoResult, response |-> NoResponse, posts |-> 0]

Fields(params) == {params[i] : i \in DOMAIN params}

\* The members of the text a key was computed from
KeyFields(key) == {key[2][i] : i \in 2..(Len(key[2]) - 1)}

\* renderImage(params) from its call to its first await, or to its return on a
\* cache hit: the cache and the call record it leaves
renderImage(cache, br, call, params) ==
    LET key    == cacheKey(params)
        cached == cacheGet(cache, key)
        same   == {i \in DOMAIN cache : KeyFields(cache[i].key) = Fields(params)}
        c0     == [call EXCEPT !.params = params, !.key = key,
                               !.known = same # {},
                               !.knownBuffer = IF same # {}
                                               THEN cache[CHOOSE i \in same : TRUE].value.buffer
                                               ELSE <<>>]
    IN  IF cached.hit /\ cached.value.format = formatOf(params)
        THEN [cache |-> cached.cache,
              call  |-> [c0 EXCEPT !.pc = "returned",
                                   !.result = [NoResult EXCEPT
                                                  !.ok = TRUE,
                                                  !.buffer = cached.value.buffer,
                                                  !.format = cached.value.format,
                                                  !.fromCache = TRUE]]]
        ELSE [cache |-> cached.cache,
              call  |-> [c0 EXCEPT !.pc = IF br.connected THEN "newPage" ELSE "launching"]]

\* POST /generate after renderImage has returned or thrown: the response
respond(call) ==
    IF call.result.ok
    THEN [call EXCEPT !.pc = "responded",
                      !.response =
                          [status |-> 200,
                           width  |-> IF call.result.width # 0 THEN call.result.width ELSE 1080,
                           height |-> IF call.result.height # 0 THEN call.result.height ELSE 1080,
                           xcache |-> IF call.result.fromCache THEN "HIT" ELSE Null,
                           body   |-> call.result.buffer]]
    ELSE [call EXCEPT !.pc = "responded", !.response = [NoResponse EXCEPT !.status = 500]]

\* The chunk.map callback of the batch route after renderImage has returned or
\* thrown: the entry for results
itemResult(call) ==
    [call EXCEPT !.pc = "responded",
                 !.response = [NoResponse EXCEPT
                                  !.status = IF call.result.ok THEN 200 ELSE 500,
                                  !.width  = call.result.width,
                                  !.height = call.result.height,
                                  !.body   = call.result.buffer]]

\* res.status(202).json({status: "accepted", ...})
accept(call) == [call EXCEPT !.response = [NoResponse EXCEPT !.status = 202]]

deliver_Always(call) == [call EXCEPT !.pc = "posting", !.posts = @ + 1]

\* Callback mode after renderImage has returned or thrown: fetch(callback_url)
\* with the image, or the catch that logs
deliver(call) ==
    IF call.result.ok
    THEN [call EXCEPT !.pc = "posting", !.posts = @ + 1]
    ELSE [call EXCEPT !.pc = "responded"]

\* What the caller of renderImage does with its outcome
settle(call) ==
    IF call.pc # "returned" THEN call
    ELSE IF call.caller = "generate" THEN respond(call)
    ELSE IF call.caller = "callback" THEN deliver(call)
    ELSE itemResult(call)

FreeRender(r) ==
    /\ renders[r].pc = "idle"
    /\ \A q \in DOMAIN renders : q < r => renders[q].pc # "idle"

\* POST /generate (no callback_url), up to the first await of renderImage
Generate(r, body, nocache) ==
    /\ FreeRender(r)
    /\ LET call   == [IdleRender EXCEPT !.caller = "generate", !.nocache = nocache]
           params == IF nocache THEN Append(body, <<"_nocache", clock>>) ELSE body
       IN  IF validateGenerateInput(body) # {}
           THEN /\ renders' = [renders EXCEPT ![r] =
                                  [call EXCEPT !.pc = "responded", !.params = params,
                                               !.response = [NoResponse EXCEPT !.status = 400]]]
                /\ UNCHANGED imageCache
           ELSE LET s == renderImage(imageCache, browser, call, params)
                IN  /\ imageCache' = s.cache
                    /\ renders' = [renders EXCEPT ![r] = settle(s.call)]
    /\ UNCHANGED <<store, procs, hist, pipelineEnv, schedVars, disk, browser, batch>>

\* await puppeteer.launch(...) resolved inside getBrowser()
LaunchResolve(r) ==
    /\ renders[r].pc = "launching"
    /\ browser.launched < MaxLaunches
    /\ browser' = [browser EXCEPT !.connected = TRUE, !.launched = @ + 1]
    /\ renders' = [renders EXCEPT ![r].pc = "newPage"]
    /\ UNCHANGED <<store, procs, hist, pipelineEnv, schedVars, disk, imageCache, batch>>

\* await b.newPage() resolved
PageOpened(r) ==
    /\ renders[r].pc = "newPage"
    /\ browser' = [browser EXCEPT !.pages = @ \cup {r}]
    /\ renders' = [renders EXCEPT ![r].pc = "page", ![r].leased = TRUE]
    /\ UNCHANGED <<store, procs, hist, pipelineEnv, schedVars, disk, imageCache, batch>>

\* setViewport, setContent and screenshot resolved: the image is cached
Screenshot(r) ==
    /\ renders[r].pc = "page"
    /\ LET call   == renders[r]
           buffer == screenshot(call.params)
           dims   == dimensions(call.params)
       IN  /\ imageCache' = cacheSet(imageCache, call.key,
                                     [buffer |-> buffer, format |-> formatOf(call.params)])
           /\ renders' = [renders EXCEPT ![r].pc = "closing",
                             ![r].result = [ok |-> TRUE, buffer |-> buffer,
                                            format |-> formatOf(call.params),
                                            width |-> dims.width, height |-> dims.height,
                                            fromCache |-> FALSE]]
    /\ UNCHANGED <<store, procs, hist, pipelineEnv, schedVars, disk, browser, batch>>

\* setViewport, setContent or screenshot rejected
PageReject(r) ==
    /\ renders[r].pc = "page"
    /\ renders' = [renders EXCEPT ![r].pc = "closing"]
    /\ UNCHANGED <<store, procs, hist, pipelineEnv, schedVars, disk, imageCache, browser, batch>>

PageClosed_LeavesOpen(r) ==
    /\ renders[r].pc = "closing"
    /\ renders' = [renders EXCEPT ![r] = settle([renders[r] EXCEPT !.pc = "returned"])]
    /\ UNCHANGED <<store, procs, hist, pipelineEnv, schedVars, disk, imageCache, browser, batch>>

\* finally: await page.close() resolved; renderImage returns or throws
PageClosed(r) ==
    /\ renders[r].pc = "closing"
    /\ browser' = [browser EXCEPT !.pages = @ \ {r}]
    /\ renders' = [renders EXCEPT ![r] = settle([renders[r] EXCEPT !.pc = "returned"])]
    /\ UNCHANGED <<store, procs, hist, pipelineEnv, schedVars, disk, imageCache, batch>>

\* The response has gone out and the handler has returned
GenerateDone(r) ==
    /\ renders[r].pc = "responded" /\ renders[r].caller \in {"generate", "callback"}
    /\ renders' = [renders EXCEPT ![r] = IdleRender]
    /\ UNCHANGED <<store, procs, hist, pipelineEnv, schedVars, disk, imageCache, browser, batch>>

Rating == <<"rating", 5>>

Bodies ==
    {<<Rating>>, <<<<"size", "landscape">>, Rating>>, <<Rating, <<"size", "huge">>>>}
    \cup {<<Rating, <<"size", s>>>> : s \in {"landscape", "story"}}

\* ?nocache=1 is sent with the plain body only
Requests ==
    {[body |-> b, nocache |-> FALSE] : b \in Bodies}
    \cup {[body |-> <<Rating>>, nocache |-> TRUE]}

\* The browser start() launched has disconnected; launched counts the launches
\* since
NoBrowser == [connected |-> FALSE, launched |-> 0, pages |-> {}]

NoBatch == [pc |-> "idle", reviews |-> <<>>, i |-> 0, results |-> <<>>, status |-> 0]

InitRender ==
    /\ store = EmptyStore
    /\ opts = [autoGenerate |-> FALSE, autoShare |-> FALSE, minRating |-> <<>>]
    /\ webhookSecret = Null
    /\ procs = <<>>
    /\ clock = 0
    /\ hist = NoHist
    /\ sched = Unused /\ polls = <<>>
    /\ disk = Unused
    /\ imageCache = <<>>
    /\ browser = NoBrowser
    /\ renders = [r \in 1..MaxRenders |-> IdleRender]
    /\ batch = NoBatch

NextRender ==
    \/ \E r \in DOMAIN renders, q \in Requests : Generate(r, q.body, q.nocache)
    \/ \E r \in DOMAIN renders : LaunchResolve(r)
    \/ \E r \in DOMAIN renders : PageOpened(r)
    \/ \E r \in DOMAIN renders : Screenshot(r)
    \/ \E r \in DOMAIN renders : PageReject(r)
    \/ \E r \in DOMAIN renders : PageClosed(r)
    \/ \E r \in DOMAIN renders : GenerateDone(r)
    \/ Tick

SpecRender == InitRender /\ [][NextRender]_vars

\* POST /generate with callback_url: 202, then renderImage up to its first
\* await
GenerateCallback(r, body) ==
    /\ FreeRender(r)
    /\ LET call   == [IdleRender EXCEPT !.caller = "callback"]
           params == Append(body, <<"callback_url", "u">>)
       IN  IF validateGenerateInput(body) # {}
           THEN /\ renders' = [renders EXCEPT ![r] =
                                  [call EXCEPT !.pc = "responded", !.params = params,
                                               !.response = [NoResponse EXCEPT !.status = 400]]]
                /\ UNCHANGED imageCache
           ELSE LET s == renderImage(imageCache, browser, accept(call), params)
                IN  /\ imageCache' = s.cache
                    /\ renders' = [renders EXCEPT ![r] = settle(s.call)]
    /\ UNCHANGED <<store, procs, hist, pipelineEnv, schedVars, disk, browser, batch>>

\* await fetch(callback_url, ...) resolved, or rejected into the catch that logs
CallbackSettled(r) ==
    /\ renders[r].pc = "posting"
    /\ renders' = [renders EXCEPT ![r].pc = "responded"]
    /\ UNCHANGED <<store, procs, hist, pipelineEnv, schedVars, disk, imageCache, browser, batch>>

\* Requests in callback mode, with a valid and an invalid body
NextCallback ==
    \/ \E r \in DOMAIN renders, b \in {<<Rating>>, <<Rating, <<"size", "huge">>>>} :
          GenerateCallback(r, b)
    \/ \E r \in DOMAIN renders : LaunchResolve(r)
    \/ \E r \in DOMAIN renders : PageOpened(r)
    \/ \E r \in DOMAIN renders : Screenshot(r)
    \/ \E r \in DOMAIN renders : PageReject(r)
    \/ \E r \in DOMAIN renders : PageClosed(r)
    \/ \E r \in DOMAIN renders : CallbackSettled(r)
    \/ \E r \in DOMAIN renders : GenerateDone(r)

SpecCallback == InitRender /\ [][NextCallback]_vars

----------------------------------------------------------------------------
(* POST /generate/batch *)

MaxBatch == 4       \* reviews in one batch request

MAX_BATCH_SIZE    == 20
BATCH_CONCURRENCY == 3

chunkEnd_All(i, n) == n

\* reviews.slice(i, i + BATCH_CONCURRENCY) ends before chunkEnd(i, n)
chunkEnd(i, n) == Min(i + BATCH_CONCURRENCY, n)

\* The chunk.map callbacks for the items from index k (0-based) up to the end
\* of the chunk that starts at i, each run up to its first await; the item
\* with index k runs in slot k - i + 1
RECURSIVE startChunk(_, _, _, _, _)
startChunk(cache, slots, reviews, i, k) ==
    IF k >= chunkEnd(i, Len(reviews))
    THEN [cache |-> cache, renders |-> slots]
    ELSE LET call == [IdleRender EXCEPT !.caller = "batch", !.index = k]
             s    == renderImage(cache, browser, call, reviews[k + 1])
         IN  startChunk(s.cache, [slots EXCEPT ![k - i + 1] = settle(s.call)],
                        reviews, i, k + 1)

\* The results of the chunk in the order of its items
RECURSIVE chunkResults(_, _)
chunkResults(slots, m) ==
    IF m = 0 THEN <<>>
    ELSE Append(chunkResults(slots, m - 1),
                [index   |-> slots[m].index,
                 success |-> slots[m].response.status = 200,
                 image   |-> slots[m].response.body])

IdleSlots == [r \in DOMAIN renders |-> IdleRender]

\* POST /generate/batch: input validation, then the first chunk
BatchRequest(reviews) ==
    /\ batch.pc = "idle"
    /\ \A r \in DOMAIN renders : renders[r].pc = "idle"
    /\ IF \/ Len(reviews) = 0
          \/ Len(reviews) > MAX_BATCH_SIZE
          \/ \E j \in DOMAIN reviews : validateGenerateInput(reviews[j]) # {}
       THEN /\ batch' = [NoBatch EXCEPT !.pc = "done", !.reviews = reviews, !.status = 400]
            /\ UNCHANGED <<imageCache, renders>>
       ELSE LET s == startChunk(imageCache, renders, reviews, 0, 0)
            IN  /\ batch' = [NoBatch EXCEPT !.pc = "running", !.reviews = reviews]
                /\ imageCache' = s.cache
                /\ renders' = s.renders
    /\ UNCHANGED <<store, procs, hist, pipelineEnv, schedVars, disk, browser>>

\* await Promise.all(...) resolved: every callback of the chunk has returned.
\* The results are pushed and the next chunk starts, or the response is sent.
ChunkDone ==
    /\ batch.pc = "running"
    /\ \A r \in DOMAIN renders : renders[r].pc \in {"idle", "responded"}
    /\ LET n       == Len(batch.reviews)
           started == Cardinality({r \in DOMAIN renders : renders[r].pc = "responded"})
           results == batch.results \o chunkResults(renders, started)
           i       == batch.i + BATCH_CONCURRENCY
       IN  IF i < n
           THEN LET s == startChunk(imageCache, IdleSlots, batch.reviews, i, i)
                IN  /\ batch' = [batch EXCEPT !.i = i, !.results = results]
                    /\ imageCache' = s.cache
                    /\ renders' = s.renders
           ELSE /\ batch' = [batch EXCEPT !.pc = "done", !.i = i, !.results = results,
                                          !.status = 200]
                /\ renders' = IdleSlots
                /\ UNCHANGED imageCache
    /\ UNCHANGED <<store, procs, hist, pipelineEnv, schedVars, disk, browser>>

\* The response has gone out
BatchDone ==
    /\ batch.pc = "done"
    /\ batch' = NoBatch
    /\ UNCHANGED <<store, procs, hist, pipelineEnv, schedVars, disk, imageCache,
                   browser, renders>>

BatchBodies == {<<Rating>>, <<Rating, <<"size", "landscape">>>>, <<Rating, <<"size", "huge">>>>}

BatchInputs == UNION {[1..n -> BatchBodies] : n \in 0..MaxBatch}

InitBatch ==
    /\ store = EmptyStore
    /\ opts = [autoGenerate |-> FALSE, autoShare |-> FALSE, minRating |-> <<>>]
    /\ webhookSecret = Null
    /\ procs = <<>>
    /\ clock = 0
    /\ hist = NoHist
    /\ sched = Unused /\ polls = <<>>
    /\ disk = Unused
    /\ imageCache = <<>>
    /\ browser = NoBrowser
    /\ renders = [r \in 1..MaxBatch |-> IdleRender]
    /\ batch = NoBatch

NextBatch ==
    \/ \E reviews \in BatchInputs : BatchRequest(reviews)
    \/ ChunkDone
    \/ BatchDone
    \/ \E r \in DOMAIN renders : LaunchResolve(r)
    \/ \E r \in DOMAIN renders : PageOpened(r)
    \/ \E r \in DOMAIN renders : Screenshot(r)
    \/ \E r \in DOMAIN renders : PageReject(r)
    \/ \E r \in DOMAIN renders : PageClosed(r)

SpecBatch == InitBatch /\ [][NextBatch]_vars

----------------------------------------------------------------------------
(* The render cache alone: cacheGet and cacheSet called in any order *)

\* The keys in a sequence of cache entries
Keys(cache) == {cache[i].key : i \in DOMAIN cache}

\* hist, in this specification: order, the keys in the cache from the least to
\* the most recently used (a use is an insert or a hit); and of the call made
\* last: op, key, hit, the keys the cache held before it, whether it was full
\* then, and the key that was the least recently used then
Used(order, key) == Append(SelectSeq(order, LAMBDA k : k # key), key)

\* cacheGet(key)
Lookup(key) ==
    /\ LET r == cacheGet(imageCache, key)
       IN  /\ imageCache' = r.cache
           /\ hist' = [order  |-> IF r.hit THEN Used(hist.order, key) ELSE hist.order,
                       op |-> "get", key |-> key, hit |-> r.hit,
                       before |-> Keys(imageCache),
                       full |-> Len(imageCache) >= IMAGE_CACHE_MAX,
                       oldest |-> hist.oldest]
    /\ UNCHANGED <<store, procs, pipelineEnv, schedVars, disk, browser, renders, batch>>

\* cacheSet(key, value)
Insert(key) ==
    /\ imageCache' = cacheSet(imageCache, key, [buffer |-> key, format |-> "png"])
    /\ hist' = [order  |-> SelectSeq(Used(hist.order, key),
                                     LAMBDA k : k \in Keys(imageCache')),
                op |-> "set", key |-> key, hit |-> FALSE,
                before |-> Keys(imageCache),
                full |-> Len(imageCache) >= IMAGE_CACHE_MAX,
                oldest |-> IF hist.order = <<>> THEN Null ELSE Head(hist.order)]
    /\ UNCHANGED <<store, procs, pipelineEnv, schedVars, disk, browser, renders, batch>>

InitCache ==
    /\ store = EmptyStore
    /\ opts = [autoGenerate |-> FALSE, autoShare |-> FALSE, minRating |-> <<>>]
    /\ webhookSecret = Null
    /\ procs = <<>>
    /\ clock = 0
    /\ hist = [order |-> <<>>, op |-> "none", key |-> Null, hit |-> FALSE,
               before |-> {}, full |-> FALSE, oldest |-> Null]
    /\ sched = Unused /\ polls = <<>>
    /\ disk = Unused
    /\ imageCache = <<>>
    /\ browser = Unused /\ renders = <<>> /\ batch = Unused

NextCache ==
    \/ \E key \in {"k1", "k2", "k3", "k4"} : Lookup(key)
    \/ \E key \in {"k1", "k2", "k3", "k4"} : Insert(key)

SpecCache == InitCache /\ [][NextCache]_vars

-----------------------------------------------------------------------------
(* The document handed to the browser *)

\* A text is the sequence of its characters.
\* str.replace(/ch/g, entity)
RECURSIVE replaceAll(_, _, _)
replaceAll(str, ch, entity) ==
    IF str = <<>> THEN <<>>
    ELSE (IF Head(str) = ch THEN entity ELSE <<Head(str)>>)
         \o replaceAll(Tail(str), ch, entity)

Entities ==
    {<<"&", "a", "m", "p", ";">>, <<"&", "l", "t", ";">>, <<"&", "g", "t", ";">>,
     <<"&", "q", "u", "o", "t", ";">>, <<"&", "#", "3", "9", ";">>}

escapeHtml(str) ==
    LET amp  == replaceAll(str, "&", <<"&", "a", "m", "p", ";">>)
        lt   == replaceAll(amp, "<", <<"&", "l", "t", ";">>)
        gt   == replaceAll(lt, ">", <<"&", "g", "t", ";">>)
        quot == replaceAll(gt, "\"", <<"&", "q", "u", "o", "t", ";">>)
    IN  replaceAll(quot, "'", <<"&", "#", "3", "9", ";">>)

\* urlValue.startsWith("http")
startsWithHttp(urlValue) ==
    Len(urlValue) >= 4 /\ SubSeq(urlValue, 1, 4) = <<"h", "t", "t", "p">>

resolveAssetUrl(urlValue, baseUrl) ==
    IF urlValue = <<>> THEN <<>>
    ELSE IF startsWithHttp(urlValue) THEN urlValue
    ELSE baseUrl \o urlValue

\* getBaseUrl(req) and config.company, the same in every run
BaseUrl == <<"h", "t", "t", "p", ":", "b">>

company == [brandColor |-> <<"#", "1">>, brandColorDark |-> <<"#", "2">>,
            logoUrl |-> <<"/", "l">>]

\* a || b on texts: the empty text is falsy
orElse(a, b) == IF a # <<>> THEN a ELSE b

\* The placeholder substitution of renderImage: what each placeholder of the
\* template is replaced by.  An absent member of the body is the empty text.
fillTemplate(params) ==
    [BRAND_COLOR      |-> escapeHtml(orElse(params.brand_color, company.brandColor)),
     BRAND_COLOR_DARK |-> escapeHtml(orElse(params.brand_color_dark, company.brandColorDark)),
     LOGO_URL         |-> resolveAssetUrl(orElse(params.logo_url, company.logoUrl), BaseUrl),
     REVIEWER_NAME    |-> escapeHtml(params.reviewer_name),
     REVIEW_TEXT      |-> escapeHtml(params.review_text),
     TECH_PHOTO_URL   |-> resolveAssetUrl(params.tech_photo_url, BaseUrl),
     TECH_NAME        |-> escapeHtml(params.tech_name)]

\* The request bodies: texts and addresses with and without the characters
\* escapeHtml replaces
Urls ==
    {<<>>, <<"/", "p">>, <<"h", "t", "t", "p", ":", "x">>, <<"/", "\"", ">">>,
     <<"h", "t", "t", "p", ":", "'", "<">>}

TemplateParams ==
    [reviewer_name : {<<"a">>, <<"<", "&">>}, review_text : {<<"b">>, <<"'", ">">>},
     tech_name : {<<>>, <<"\"">>}, tech_photo_url : Urls, logo_url : Urls,
     brand_color : {<<>>, <<"#", "f">>, <<"\"", "&">>}, brand_color_dark : {<<>>}]

\* hist, in this specification: the body of the last request and the document
\* renderImage built from it
Fill(params) ==
    /\ hist' = [op |-> "fill", params |-> params, html |-> fillTemplate(params)]
    /\ UNCHANGED <<store, procs, pipelineEnv, schedVars, disk, renderVars>>

InitTemplate ==
    /\ store = EmptyStore
    /\ opts = [autoGenerate |-> FALSE, autoShare |-> FALSE, minRating |-> <<>>]
    /\ webhookSecret = Null
    /\ procs = <<>>
    /\ clock = 0
    /\ hist = [op |-> "none"]
    /\ sched = Unused /\ polls = <<>>
    /\ disk = Unused
    /\ imageCache = <<>>
    /\ browser = Unused /\ renders = <<>> /\ batch = Unused

NextTemplate == \E params \in TemplateParams : Fill(params)

SpecTemplate == InitTemplate /\ [][NextTemplate]_vars

-----------------------------------------------------------------------------
(* ReviewStore: getRecentReviews and prune; GET /reviews *)

MaxStored     == 4    \* addReview calls
MAX_LIMIT     == 2    \* Math.min(..., 200), scaled to the records of the model
DEFAULT_LIMIT == 1    \* parseInt(req.query.limit) || 50, scaled

\* A date text is the pair of its leading character and the day it names.
\* toISOString() gives a year-first text, <<2, day>>; a review date is the
\* text the payload or the CSV row carried, which may be month-first,
\* <<1, day>>.  The empty text is falsy.
toISOString(day) == <<2, day>>

\* The day a date text names
DayOf(text) == text[2]

\* a < b on strings: by the first character that differs
lessThan(a, b) ==
    \E i \in 1..Min(Len(a), Len(b)) + 1 :
        /\ \A j \in 1..(i - 1) : a[j] = b[j]
        /\ IF i <= Min(Len(a), Len(b)) THEN a[i] < b[i] ELSE Len(a) < Len(b)

\* review.reviewDate || review.processedAt
dateOf(review) == IF review.reviewDate # <<>> THEN review.reviewDate ELSE review.processedAt

\* reviews.sort((a, b) => date(b).localeCompare(date(a))): a stable sort, the
\* later date text first
RECURSIVE sortByDateDesc(_)
sortByDateDesc(reviews) ==
    IF reviews = <<>> THEN <<>>
    ELSE LET rest  == sortByDateDesc(Tail(reviews))
             first == Head(reviews)
             k     == Cardinality({i \in DOMAIN rest :
                                       lessThan(dateOf(first), dateOf(rest[i]))})
         IN  SubSeq(rest, 1, k) \o <<first>> \o SubSeq(rest, k + 1, Len(rest))

\* reviews.slice(0, limit): a negative limit counts from the end
slice(reviews, limit) ==
    SubSeq(reviews, 1, IF limit >= 0 THEN Min(limit, Len(reviews))
                       ELSE Max(Len(reviews) + limit, 0))

\* getRecentReviews(limit, source); order is the order Object.values gives the
\* records in, that of their insertion
getRecentReviews(d, order, limit, source) ==
    LET values   == [i \in DOMAIN order |-> d.reviews[order[i]]]
        filtered == IF source # Null
                    THEN SelectSeq(values, LAMBDA r : r.source = source)
                    ELSE values
    IN  slice(sortByDateDesc(filtered), limit)

\* Math.min(parseInt(req.query.limit) || 50, 200); the parameter is <<>> when
\* it is missing or not a number, <<n>> when it reads as n
limitOf(query) ==
    Min(IF query = <<>> \/ query[1] = 0 THEN DEFAULT_LIMIT ELSE query[1], MAX_LIMIT)

\* prune(maxAgeDays) at the day now
prune(st, maxAgeDays, now) ==
    LET cutoff == toISOString(now - maxAgeDays)
        old    == {id \in DOMAIN st.data.reviews :
                       /\ dateOf(st.data.reviews[id]) # <<>>
                       /\ lessThan(dateOf(st.data.reviews[id]), cutoff)}
        kept   == [id \in DOMAIN st.data.reviews \ old |-> st.data.reviews[id]]
    IN  [pruned |-> Cardinality(old),
         store  |-> IF old = {} THEN st
                    ELSE scheduleSave([st EXCEPT !.data.reviews = kept, !.dirty = TRUE])]

\* The records ingested: id, source and the review date the row carried
Rows ==
    {[id |-> "r1", source |-> "yelp",   rating |-> 5, reviewDate |-> <<2, 0>>],
     [id |-> "r2", source |-> "google", rating |-> 5, reviewDate |-> <<2, 1>>],
     [id |-> "r3", source |-> "yelp",   rating |-> 5, reviewDate |-> <<1, 9>>],
     [id |-> "r4", source |-> "google", rating |-> 5, reviewDate |-> <<2, 0>>]}

\* hist, in this specification: order, the ids of the stored records in the
\* order of their insertion; and of the call made last: op, its arguments, what
\* it returned and, for prune, the day of the call and the document it found
Ingest(review) ==
    /\ ~hasReview(store.data, review.id)
    /\ store.data.totalIngested < MaxStored
    /\ store' = addReview(store, review, toISOString(clock))
    /\ hist' = [order |-> Append(hist.order, review.id), op |-> "add",
                limit |-> <<>>, source |-> Null, maxAgeDays |-> 0, now |-> 0,
                before |-> FreshDoc, returned |-> <<>>]
    /\ UNCHANGED <<procs, pipelineEnv, schedVars, disk, renderVars>>

\* GET /reviews?limit=..&source=..
GetReviews(query, source) ==
    /\ hist' = [hist EXCEPT !.op = "recent", !.limit = query, !.source = source,
                            !.maxAgeDays = 0, !.now = 0, !.before = FreshDoc,
                            !.returned = getRecentReviews(store.data, hist.order,
                                                          limitOf(query), source)]
    /\ UNCHANGED <<store, procs, pipelineEnv, schedVars, disk, renderVars>>

\* store.prune(maxAgeDays)
Prune(maxAgeDays) ==
    /\ LET r == prune(store, maxAgeDays, clock)
       IN  /\ store' = r.store
           /\ hist' = [hist EXCEPT
                         !.order = SelectSeq(@, LAMBDA id : hasReview(r.store.data, id)),
                         !.op = "prune", !.limit = <<>>, !.source = Null,
                         !.maxAgeDays = maxAgeDays, !.now = clock,
                         !.before = store.data,
                         !.returned = <<r.pruned>>]
    /\ UNCHANGED <<procs, pipelineEnv, schedVars, disk, renderVars>>

InitQuery ==
    /\ store = EmptyStore
    /\ opts = [autoGenerate |-> FALSE, autoShare |-> FALSE, minRating |-> <<>>]
    /\ webhookSecret = Null
    /\ procs = <<>>
    /\ clock = 0
    /\ hist = [order |-> <<>>, op |-> "none", limit |-> <<>>, source |-> Null,
               maxAgeDays |-> 0, now |-> 0, before |-> FreshDoc, returned |-> <<>>]
    /\ sched = Unused /\ polls = <<>>
    /\ disk = Unused
    /\ imageCache = <<>>
    /\ browser = Unused /\ renders = <<>> /\ batch = Unused

NextQuery ==
    \/ \E review \in Rows : Ingest(review)
    \/ \E query \in {<<>>, <<0>>, <<-1>>, <<1>>, <<3>>}, source \in {Null, "yelp"} :
          GetReviews(query, source)
    \/ \E maxAgeDays \in {0, 1} : Prune(maxAgeDays)
    \/ Tick

SpecQuery == InitQuery /\ [][NextQuery]_vars

-----------------------------------------------------------------------------
(* POST /reviews/:id/generate and POST /reviews/:id/share *)

\* Names every object inherits from Object.prototype
ObjectPrototype == {<<"constructor">>}

\* store.data.reviews[req.params.id] is truthy: a stored record, or a member
\* the reviews object inherits
found(d, id) == id \in DOMAIN d.reviews \/ id \in ObjectPrototype

\* A request to one of the two routes: rendered and shared tell whether
\* pipeline.renderImage and pipeline.shareToSlack resolved, status is the HTTP
\* status answered (0: none yet)
IdleStored ==
    [pc |-> "idle", route |-> Null, id |-> <<>>, status |-> 0,
     rendered |-> FALSE, shared |-> FALSE]

\* The handler up to its first await
StoredRequest(p, route, id) ==
    /\ procs[p].pc \in {"idle", "done"}
    /\ procs' = [procs EXCEPT ![p] =
                    IF ~found(store.data, id)
                    THEN [IdleStored EXCEPT !.pc = "done", !.route = route, !.id = id,
                                            !.status = 404]
                    ELSE [IdleStored EXCEPT !.pc = "render", !.route = route, !.id = id]]
    /\ UNCHANGED <<store, pipelineEnv, hist, schedVars, disk, renderVars>>

\* pipeline.renderImage resolves; it rejects on an inherited member, which has
\* none of the fields of a record (escapeHtml(undefined) throws)
StoredRenderResolve(p) ==
    /\ procs[p].pc = "render"
    /\ hasReview(store.data, procs[p].id)
    /\ IF procs[p].route = "generate"
       THEN /\ store' = markProcessed(store, procs[p].id, "imageGenerated")
            /\ procs' = [procs EXCEPT ![p].pc = "done", ![p].rendered = TRUE,
                                      ![p].status = 200]
       ELSE /\ procs' = [procs EXCEPT ![p].pc = "share", ![p].rendered = TRUE]
            /\ UNCHANGED store
    /\ UNCHANGED <<pipelineEnv, hist, schedVars, disk, renderVars>>

StoredShareResolve_SharedOnly(p) ==
    /\ procs[p].pc = "share"
    /\ store' = markProcessed(store, procs[p].id, "slackShared")
    /\ procs' = [procs EXCEPT ![p].pc = "done", ![p].shared = TRUE, ![p].status = 200]
    /\ UNCHANGED <<pipelineEnv, hist, schedVars, disk, renderVars>>

\* pipeline.shareToSlack resolves
StoredShareResolve(p) ==
    /\ procs[p].pc = "share"
    /\ store' = markProcessed(markProcessed(store, procs[p].id, "slackShared"),
                              procs[p].id, "imageGenerated")
    /\ procs' = [procs EXCEPT ![p].pc = "done", ![p].shared = TRUE, ![p].status = 200]
    /\ UNCHANGED <<pipelineEnv, hist, schedVars, disk, renderVars>>

\* renderImage or shareToSlack rejects: the catch answers 500
StoredReject(p) ==
    /\ procs[p].pc \in {"render", "share"}
    /\ procs' = [procs EXCEPT ![p].pc = "done", ![p].status = 500]
    /\ UNCHANGED <<store, pipelineEnv, hist, schedVars, disk, renderVars>>

InitStored ==
    /\ store = load(Absent)
    /\ disk = NoFiles
    /\ opts = [autoGenerate |-> FALSE, autoShare |-> FALSE, minRating |-> <<>>]
    /\ webhookSecret = Null
    /\ procs = [p \in 1..MaxProcs |-> IdleStored]
    /\ clock = 0
    /\ hist = [op |-> "load", id |-> Null, ok |-> TRUE, before |-> EmptyStore,
               failed |-> FALSE]
    /\ sched = Unused /\ polls = <<>>
    /\ imageCache = <<>> /\ browser = Unused /\ renders = <<>> /\ batch = Unused

NextStored ==
    \/ \E name \in {"i1", "i2"} : AddReview(name)
    \/ \E p \in DOMAIN procs, route \in {"generate", "share"},
          id \in {parseItem(Source, ItemOf(name)).id : name \in {"i1", "i2"}}
                 \cup ObjectPrototype :
          StoredRequest(p, route, id)
    \/ \E p \in DOMAIN procs : StoredRenderResolve(p)
    \/ \E p \in DOMAIN procs : StoredShareResolve(p)
    \/ \E p \in DOMAIN procs : StoredReject(p)

SpecStored == InitStored /\ [][NextStored]_vars

-----------------------------------------------------------------------------
(* YelpAdapter.fetchReviews, polled *)

MaxDay  == 3    \* days the reviews of the feed were created on
MaxFeed == 2    \* reviews in one response of the feed

\* truthiness of a cursor; a cursor is a date text, and the falsy ones (null
\* from a store that has none, the empty text) are all written <<>>
truthy(cursor) == cursor # <<>>

\* a > b on a date text and a cursor
greaterThan(a, b) == lessThan(b, a)

\* fetchReviews(cursor) when the request resolved with data: data.isArray,
\* whether data.reviews is an array, and data.reviews, the time_created texts
\* of its reviews (<<>>: the review has none)
fetchReviews(cursor, data, now) ==
    IF ~data.isArray THEN [reviews |-> <<>>, cursor |-> cursor]
    ELSE LET reviews    == [i \in DOMAIN data.reviews |->
                               [id |-> <<"yelp", i, data.reviews[i]>>, source |-> "yelp",
                                rating |-> 5,
                                reviewDate |-> IF data.reviews[i] # <<>>
                                               THEN data.reviews[i]
                                               ELSE toISOString(now)]]
             filtered   == IF truthy(cursor)
                           THEN SelectSeq(reviews,
                                          LAMBDA r : greaterThan(r.reviewDate, cursor))
                           ELSE reviews
             newestTime == IF Len(reviews) > 0 THEN reviews[1].reviewDate ELSE cursor
         IN  [reviews |-> filtered,
              cursor  |-> IF truthy(newestTime) THEN newestTime ELSE cursor]

\* The responses of the feed: sort_by=newest, the later review first
Created == {toISOString(d) : d \in 1..MaxDay}

NoArray == [isArray |-> FALSE, reviews |-> <<>>]

Responses ==
    {NoArray} \cup
    {[isArray |-> TRUE, reviews |-> l] :
        l \in {t \in UNION {[1..n -> Created \cup {<<>>}] : n \in 0..MaxFeed} :
                  \A i, j \in DOMAIN t :
                      (i < j /\ t[i] # <<>> /\ t[j] # <<>>) => ~lessThan(t[i], t[j])}}

\* hist, in this specification: of the poll made last, the cursor passed in,
\* the response and what fetchReviews returned; newest, the latest review date
\* any fetch has returned or filtered out (<<>>: none yet).
\* pollOnce of the Yelp adapter from getCursor to setLastPollTime, the fetch
\* having resolved with data
YelpPoll(data) ==
    LET cursor == IF "yelp" \in DOMAIN store.data.cursors
                  THEN getCursor(store.data, "yelp") ELSE <<>>
        r      == fetchReviews(cursor, data, clock)
        dates  == {IF data.reviews[i] # <<>> THEN data.reviews[i] ELSE toISOString(clock) :
                      i \in DOMAIN data.reviews}
        seen   == dates \cup (IF hist.newest = <<>> THEN {} ELSE {hist.newest})
        st2    == IF truthy(r.cursor) /\ r.cursor # cursor
                  THEN setCursor(store, "yelp", r.cursor) ELSE store
    IN  /\ store' = setLastPollTime(st2, "yelp", clock)
        /\ hist' = [passed |-> cursor, data |-> data, returned |-> r, polled |-> TRUE,
                    newest |-> IF seen = {} THEN <<>>
                               ELSE CHOOSE d \in seen : \A e \in seen : ~lessThan(d, e)]
        /\ UNCHANGED <<procs, pipelineEnv, schedVars, disk, renderVars>>

InitYelp ==
    /\ store = EmptyStore
    /\ opts = [autoGenerate |-> FALSE, autoShare |-> FALSE, minRating |-> <<>>]
    /\ webhookSecret = Null
    /\ procs = <<>>
    /\ clock = 0
    /\ hist = [passed |-> <<>>, data |-> NoArray,
               returned |-> [reviews |-> <<>>, cursor |-> <<>>], newest |-> <<>>, polled |-> FALSE]
    /\ sched = Unused /\ polls = <<>>
    /\ disk = Unused
    /\ imageCache = <<>>
    /\ browser = Unused /\ renders = <<>> /\ batch = Unused

NextYelp ==
    \/ \E data \in Responses : YelpPoll(data)
    \/ Tick

SpecYelp == InitYelp /\ [][NextYelp]_vars

-----------------------------------------------------------------------------
(* The pipeline and the stored-review routes on one store *)

\* Slots 1..MaxProcs hold calls of process, the slot after them a request to
\* one of the stored-review routes
StoredSlot == MaxProcs + 1

InitFlags ==
    /\ IdleRest
    /\ store = EmptyStore
    /\ opts \in [autoGenerate : BOOLEAN, autoShare : {TRUE}, minRating : {<<>>}]
    /\ webhookSecret = Null
    /\ procs = [p \in 1..StoredSlot |-> IF p = StoredSlot THEN IdleStored ELSE IdleProc]
    /\ clock = 0
    /\ hist = NoHist

NextFlags ==
    \/ \E p \in Procs, items \in {pl \in Payloads : Len(pl) <= 1} : Import(p, Source, items)
    \/ \E p \in Procs : Respond(p)
    \/ \E p \in Procs : RenderResolve(p)
    \/ \E p \in Procs : RenderReject(p)
    \/ \E p \in Procs : ShareResolve(p)
    \/ \E p \in Procs : ShareReject(p)
    \/ \E route \in {"generate", "share"},
          id \in {parseItem(Source, ItemOf(name)).id : name \in {"i1", "i2"}} :
          StoredRequest(StoredSlot, route, id)
    \/ StoredRenderResolve(StoredSlot)
    \/ StoredShareResolve(StoredSlot)
    \/ StoredReject(StoredSlot)

SpecFlags == InitFlags /\ [][NextFlags]_vars

-----------------------------------------------------------------------------
(* A poll, the pipeline and the save timer on one store *)

\* The debounce timer fires while a poll is in flight: this.saveTimer = null;
\* this.save()
TimerFire(ok) ==
    /\ store.saveTimer
    /\ LET r == save(store, disk, ok)
       IN  store' = r.store /\ disk' = r.disk
    /\ UNCHANGED <<procs, hist, pipelineEnv, schedVars, renderVars>>

\* Polls of adapter x by the poll route, with autoGenerate on: a fetch returns
\* no review or two new ones
InitSnapshot ==
    /\ store = load(Absent)
    /\ disk = NoFiles
    /\ opts = [autoGenerate |-> TRUE, autoShare |-> FALSE, minRating |-> <<>>]
    /\ webhookSecret = Null
    /\ procs = [p \in Procs |-> IdleProc]
    /\ clock = 0
    /\ hist = NoHist
    /\ sched = NewScheduler([n \in Names |-> [enabled |-> n = "x", pollIntervalMinutes |-> 0]])
    /\ polls = [c \in Procs |-> IdlePoll]
    /\ imageCache = <<>> /\ browser = Unused /\ renders = <<>> /\ batch = Unused

NextSnapshot ==
    \/ \E c \in Procs : PollRoute(c, "x")
    \/ \E c \in Procs, items \in {<<>>, <<"i1", "i2">>}, cur \in Cursors :
          FetchResolve(c, items, cur)
    \/ \E c \in Procs : FetchReject(c)
    \/ \E c \in Procs : RenderResolve(c)
    \/ \E c \in Procs : RenderReject(c)
    \/ \E c \in Procs : ProcessResolve(c)
    \/ \E c \in Procs : PollReturn(c)
    \/ \E ok \in BOOLEAN : TimerFire(ok)

SpecSnapshot == InitSnapshot /\ [][NextSnapshot]_vars

----------------------------------------------------------------------------
(* Properties of the pipeline and the ingestion routes *)

Reviews == store.data.reviews

\* C2: every record process accepted as new is in the store under its own id
\* when the call has returned, and every value of reviews has the id of the
\* key it is stored under.
C2_AcceptedStoredUnderOwnId ==
    /\ \A id \in DOMAIN Reviews : Reviews[id].id = id
    /\ \A p \in Procs :
          procs[p].pc = "done" =>
              /\ Cardinality(procs[p].accepted) = procs[p].results.new
              /\ \A id \in procs[p].accepted :
                    hasReview(store.data, id) /\ Reviews[id].id = id

\* Two calls have returned having accepted records, and two records are stored
C2_Witness ==
    /\ procs[1].pc = "done" /\ procs[1].accepted # {}
    /\ procs[2].pc = "done" /\ procs[2].accepted # {}
    /\ Cardinality(DOMAIN Reviews) = 2

\* The call that has just returned ran on the input of the call before it,
\* from the store that call left
SecondRun ==
    /\ procs[1].pc = "done" /\ procs[1].invoked
    /\ hist.prev.valid
    /\ hist.prev.input = procs[1].input
    /\ hist.prev.after = hist.start.reviews

InputIds == {procs[1].input[i].id : i \in DOMAIN procs[1].input}

SecondRunIsNoOp ==
    /\ Reviews = hist.prev.after
    /\ procs[1].results.new = 0
    /\ procs[1].results.duplicate = Len(procs[1].input)

\* C3 as stated: the second run on the same input leaves the reviews map as the
\* first left it and reports new = 0, duplicate = n, and the first run
\* reported new = n, n the length of the input.
C3_TwiceImportsAllThenNone ==
    SecondRun => SecondRunIsNoOp /\ hist.prev.new = Len(procs[1].input)

\* C3 as amended: the second run on the same input leaves the reviews map as
\* the first left it and reports new = 0, duplicate = n; the first run reported
\* new = n when the n ids of the input are pairwise distinct and none of them
\* was stored before it.
C3_SecondRunAllDuplicates ==
    SecondRun =>
        /\ SecondRunIsNoOp
        /\ (/\ Cardinality(InputIds) = Len(procs[1].input)
            /\ InputIds \cap DOMAIN hist.prev.before = {})
           => hist.prev.new = Len(procs[1].input)

\* A second run on a two-record payload whose first run stored both records
C3_Witness ==
    /\ SecondRun
    /\ Len(procs[1].input) = 2
    /\ hist.prev.new = 2
    /\ procs[1].results.duplicate = 2

\* C4: with a webhook secret configured, the payload reaches the pipeline
\* exactly when one of the two signature headers is the HMAC of the raw request
\* body; otherwise the answer is 401, the pipeline is not invoked and the store
\* is unchanged.
C4_AcceptsIffRawBodySigned ==
    \A p \in Procs :
        (procs[p].kind = "webhook" /\ webhookSecret # Null) =>
            LET rq    == procs[p].request
                valid == \/ rq.h1 = Signature(webhookSecret, rq.raw)
                         \/ rq.h2 = Signature(webhookSecret, rq.raw)
            IN  /\ procs[p].invoked <=> valid
                /\ ~valid => procs[p].status = 401 /\ store.data = hist.start

\* The record a suspended call is rendering or sharing
Current(pr) == pr.input[pr.idx].id

Suspended(pr) == pr.pc \in {"rendering", "sharing"}

\* The records of its input a call has gone through
Seen(pr) == IF Suspended(pr) THEN pr.idx ELSE pr.idx - 1

AcceptedOnce ==
    /\ \A p, q \in DOMAIN procs : p # q => procs[p].accepted \cap procs[q].accepted = {}
    /\ \A p \in DOMAIN procs :
          LET pr == procs[p]
          IN  /\ pr.accepted \subseteq DOMAIN store.data.reviews
              /\ pr.results.new = Cardinality(pr.accepted)
              /\ pr.results.new + pr.results.duplicate = Seen(pr)
              /\ pr.pc = "done" => Seen(pr) = Len(pr.input)
              /\ pr.shareInvoked \subseteq pr.accepted
              /\ Suspended(pr) => Current(pr) \in pr.accepted
    /\ store.data.totalIngested = Cardinality(DOMAIN store.data.reviews)

\* The ids a step makes call p count as new
NewlyAccepted(p) == procs'[p].accepted \ procs[p].accepted

AddsOnlyTheAbsent ==
    \A p \in DOMAIN procs :
        /\ procs'[p].pc # "idle" =>
              /\ NewlyAccepted(p) \cap DOMAIN store.data.reviews = {}
              /\ NewlyAccepted(p) \subseteq DOMAIN store'.data.reviews
        /\ (/\ procs'[p].pc = "rendering"
            /\ procs[p].pc = "rendering" => procs'[p].idx # procs[p].idx) =>
              Current(procs'[p]) \in NewlyAccepted(p)
        /\ (procs'[p].pc = "sharing" /\ procs[p].pc # "sharing") =>
              /\ procs[p].pc = "rendering"
              /\ Current(procs'[p]) = Current(procs[p])
              /\ Current(procs'[p]) \notin procs[p].shareInvoked

\* C34: of the calls of process suspended at the same time whose inputs hold
\* the same id, one counts the id as new and adds it, every other occurrence
\* is counted as a duplicate, only the call that added the record renders and
\* shares it, once, and totalIngested is the number of distinct ids stored.
C34_ConcurrentCallsAddOnce == []AcceptedOnce /\ [][AddsOnlyTheAbsent]_vars

\* A call is suspended in the render of a record it added, and a call that
\* began meanwhile with the same id in its input has counted it a duplicate.
C34_Witness ==
    \E p, q \in DOMAIN procs :
        /\ p # q
        /\ procs[p].pc = "rendering"
        /\ procs[q].pc = "done" /\ procs[q].accepted = {}
        /\ procs[q].results.duplicate >= 1
        /\ \E i \in DOMAIN procs[q].input : procs[q].input[i].id = Current(procs[p])

----------------------------------------------------------------------------
(* Properties of the scheduler *)

InProgress(name) ==
    {c \in DOMAIN polls : polls[c].name = name /\ polls[c].pc \in {"fetching", "processing"}}

\* At most one call per adapter is past the lock, it is the one that invoked
\* fetch, and the lock is held exactly while there is one
OneInFlight ==
    \A name \in Names :
        /\ Cardinality(InProgress(name)) <= 1
        /\ sched.locks[name] <=> InProgress(name) # {}
        /\ \A c \in InProgress(name) : polls[c].fetched = 1

\* A pollOnce(k) call made while an earlier one is in progress returns
\* {skipped: true} and has changed nothing
SkippedStep ==
    \A c \in DOMAIN polls :
        (/\ polls[c].pc = "idle" /\ polls'[c].pc # "idle"
         /\ InProgress(polls'[c].name) # {})
        => /\ polls'[c].pc = "done" /\ polls'[c].result = "skipped"
           /\ polls'[c].fetched = 0
           /\ store' = store
           /\ sched'.locks = sched.locks
           /\ sched'.failures = sched.failures

\* C1: a pollOnce(k) call made while an earlier pollOnce(k) has not finished
\* returns {skipped: true} without invoking fetch and without changing the
\* cursor, the last-poll time, the failure counter or the lock; of the calls
\* for k in progress at one time exactly one has invoked fetch.
C1_SingleFlight == []OneInFlight /\ [][SkippedStep]_vars

\* A call for x has been skipped while another call for x is waiting for fetch
C1_Witness ==
    \E c, d \in DOMAIN polls :
        /\ polls[c].pc = "done" /\ polls[c].result = "skipped" /\ polls[c].name = "x"
        /\ polls[d].pc = "fetching" /\ polls[d].name = "x"

\* The step in which the call in slot c, having taken the lock, completes
Completes(c) ==
    polls[c].pc \in {"fetching", "processing"} /\ polls'[c].pc = "done"

\* While no call for an adapter is in progress its lock is free, and a
\* pollOnce for it takes the lock and goes on to fetch
FreeWhenIdle ==
    \A name \in Names :
        InProgress(name) = {} =>
            /\ ~locked(sched, name)
            /\ isEnabled(sched, name) =>
                  /\ pollOnce(sched, name).poll.pc = "fetching"
                  /\ locked(pollOnce(sched, name).sched, name)

\* C26: every pollOnce that took the lock has released it when it completes,
\* with a result or with an error; whenever no poll of an adapter is in
\* progress its lock is free and the next pollOnce is not skipped.
C26_LockReleasedOnCompletion ==
    /\ []FreeWhenIdle
    /\ [][\A c \in DOMAIN polls :
             Completes(c) => ~locked(sched', polls[c].name)]_vars

\* A poll of x has failed and the next call for x is past the lock
C26_Witness ==
    \E c, d \in DOMAIN polls :
        /\ polls[c].pc = "done" /\ polls[c].result = "error" /\ polls[c].name = "x"
        /\ polls[d].pc = "fetching" /\ polls[d].name = "x"

\* The step in which the call in slot c returns or throws, with result
Returns(c, result) ==
    polls[c].pc # "done" /\ polls'[c].pc = "done" /\ polls'[c].result = result

\* C27: the failure counter of an adapter is the number of its polls that
\* failed since the last one that succeeded: a success sets it to 0, a failure
\* adds exactly 1 (and the error is raised to the caller), a skipped call and a
\* call for an unknown or disabled adapter leave it as it was; nothing else
\* changes a counter.
C27_FailuresCountConsecutive ==
    [][/\ \A c \in DOMAIN polls :
             LET name == polls'[c].name
             IN  /\ Returns(c, "ok") =>
                       sched'.failures = [sched.failures EXCEPT ![name] = 0]
                 /\ Returns(c, "error") =>
                       sched'.failures = [sched.failures EXCEPT ![name] = @ + 1]
                 /\ (Returns(c, "skipped") \/ Returns(c, "notfound")) =>
                       sched'.failures = sched.failures
       /\ (\A c \in DOMAIN polls : ~(polls[c].pc # "done" /\ polls'[c].pc = "done")) =>
             sched'.failures = sched.failures]_vars

\* x has failed twice in a row, the second failure just raised
C27_Witness ==
    \E c \in DOMAIN polls :
        /\ polls[c].pc = "done" /\ polls[c].result = "error" /\ polls[c].name = "x"
        /\ sched.failures["x"] = 2

\* The fetch of the call in slot c resolves in this step
FetchResolves(c) ==
    polls[c].pc = "fetching" /\ polls'[c].pc \in {"processing", "done"}
        /\ polls'[c].result # "error"

\* C28: a cursor is written only by a poll whose fetch succeeded and returned
\* a cursor other than the stored one, and only for that poll's adapter; the
\* last-poll time is stamped only after a successful fetch, for that adapter;
\* a fetch that throws leaves cursor and last-poll time as they were.
C28_CursorOnlyAfterSuccessfulFetch ==
    [][/\ store'.data.cursors # store.data.cursors =>
             \E c \in DOMAIN polls :
                 LET name == polls[c].name
                 IN  /\ FetchResolves(c)
                     /\ getCursor(store'.data, name) \notin {Null, polls[c].cursor}
                     /\ polls[c].cursor = getCursor(store.data, name)
                     /\ \A other \in Names \ {name} :
                           getCursor(store'.data, other) = getCursor(store.data, other)
       /\ store'.data.lastPollTimes # store.data.lastPollTimes =>
             \E c \in DOMAIN polls :
                 /\ FetchResolves(c)
                 /\ \A other \in DOMAIN store'.data.lastPollTimes \ {polls[c].name} :
                       /\ other \in DOMAIN store.data.lastPollTimes
                       /\ store'.data.lastPollTimes[other] = store.data.lastPollTimes[other]
       /\ \A c \in DOMAIN polls :
             /\ Returns(c, "error") => store' = store
             /\ FetchResolves(c) => polls[c].name \in DOMAIN store'.data.lastPollTimes]_vars

\* The cursor of x has been written, y has none, and a later fetch for x has
\* thrown
C28_Witness ==
    /\ getCursor(store.data, "x") = "c1"
    /\ getCursor(store.data, "y") = Null
    /\ \E c \in DOMAIN polls :
          polls[c].pc = "done" /\ polls[c].result = "error" /\ polls[c].name = "x"

\* C10: when an adapter has failed n >= 1 times in a row, the period of its
\* repeating timer (the delay from one timer-driven poll to the next) is
\* min(base * 2^n, 2 hours).
C10_DelayFollowsBackoff ==
    \A name \in Names :
        \A i \in sched.timers[name] :
            LET n == sched.failures[name]
            IN  (n >= 1 /\ ~sched.locks[name]) =>
                    i.period = Min(i.base * Pow2(n), MAX_BACKOFF_MS)

\* The entries of a call's errors list for one record and one step
ErrorsFor(pr, id, step) ==
    {i \in DOMAIN pr.results.errors :
        pr.results.errors[i].reviewId = id /\ pr.results.errors[i].step = step}

\* The call has handled every record up to the one it is at, and all of them
\* once it has returned
NotAborted(pr) ==
    /\ pr.results.new = Cardinality(pr.accepted)
    /\ pr.pc = "done" => pr.results.new + pr.results.duplicate = Len(pr.input)
    /\ pr.pc # "done" => /\ pr.idx <= Len(pr.input)
                         /\ pr.results.new + pr.results.duplicate = pr.idx

\* The two counters count the records of this call with the flag set
CountersMatchFlags(pr) ==
    /\ pr.results.generated =
           Cardinality({a \in pr.accepted : store.data.reviews[a].imageGenerated})
    /\ pr.results.shared =
           Cardinality({a \in pr.accepted : store.data.reviews[a].slackShared})

\* The first record of the call's input is id, and it has a second one that
\* was new
FirstOfTwoAccepted(pr, id) ==
    /\ pr.pc = "done" /\ Len(pr.input) = 2
    /\ pr.input[1].id = id /\ pr.results.new = 2

\* C12: a record whose render failed stays stored and counted in new, its
\* imageGenerated flag stays false, the call's errors hold exactly one entry
\* for it, with step "generate", and the call goes on with the records after it.
C12_RenderFailureKeepsRecordAndBatch ==
    \A p \in DOMAIN procs : \A id \in procs[p].renderFailed :
        LET pr == procs[p]
        IN  /\ id \in pr.accepted
            /\ id \in DOMAIN store.data.reviews
            /\ ~store.data.reviews[id].imageGenerated
            /\ ~store.data.reviews[id].slackShared
            /\ Cardinality(ErrorsFor(pr, id, "generate")) = 1
            /\ ErrorsFor(pr, id, "slack") = {}
            /\ NotAborted(pr)

\* A call has returned whose first record's render failed and whose second
\* record was accepted after it
C12_Witness ==
    \E p \in DOMAIN procs : \E id \in procs[p].renderFailed :
        FirstOfTwoAccepted(procs[p], id)

\* C13: a record whose share failed keeps imageGenerated true and is counted
\* in generated, has slackShared false and is not counted in shared, has
\* exactly one error, for the share step, and none for the generate step, and
\* the call goes on with the records after it.
C13_ShareFailureKeepsImage ==
    \A p \in DOMAIN procs : \A id \in procs[p].shareFailed :
        LET pr == procs[p]
        IN  /\ id \in pr.accepted
            /\ store.data.reviews[id].imageGenerated
            /\ ~store.data.reviews[id].slackShared
            /\ CountersMatchFlags(pr)
            /\ Cardinality(ErrorsFor(pr, id, "slack")) = 1
            /\ ErrorsFor(pr, id, "generate") = {}
            /\ NotAborted(pr)

\* A call has returned whose first record's share failed and whose second
\* record was accepted after it
C13_Witness ==
    \E p \in DOMAIN procs : \E id \in procs[p].shareFailed :
        FirstOfTwoAccepted(procs[p], id)

\* C14: shareToSlack is invoked for a record a call accepted exactly when
\* autoShare is on, the record's image was produced in the call and its
\* rating is at least the configured minimum (4 when none is configured), and
\* for no other record.
C14_ShareIffConfiguredThreshold ==
    \A p \in DOMAIN procs :
        LET pr        == procs[p]
            threshold == IF opts.minRating = <<>> THEN 4 ELSE opts.minRating[1]
        IN  /\ pr.shareInvoked \subseteq pr.accepted
            /\ \A id \in pr.accepted :
                   id \in pr.shareInvoked <=>
                       /\ opts.autoShare
                       /\ store.data.reviews[id].imageGenerated
                       /\ store.data.reviews[id].rating >= threshold

\* C15: addReview of a record whose id is stored already fails and leaves the
\* document unchanged; of a record whose id is not stored, inserts it, adds one
\* to totalIngested and marks the store dirty.
C15_AddConflictsOnStoredId ==
    hist.op = "addReview" =>
        IF hist.id \in DOMAIN hist.before.data.reviews
        THEN ~hist.ok /\ store.data = hist.before.data
        ELSE /\ hist.ok
             /\ DOMAIN store.data.reviews = DOMAIN hist.before.data.reviews \cup {hist.id}
             /\ store.data.reviews[hist.id].id = hist.id
             /\ store.data.totalIngested = hist.before.data.totalIngested + 1
             /\ store.dirty

\* C17: when shutdown() has returned and its file operations succeeded, the
\* file holds the serialisation of the document in memory, dirty is false and
\* no save timer is armed.
C17_ShutdownFlushes ==
    (hist.op = "shutdown" /\ hist.ok) =>
        /\ disk.main = Serialise(store.data)
        /\ disk.tmp = Absent
        /\ ~store.dirty
        /\ ~store.saveTimer

\* shutdown() has returned after flushing a dirty store with a timer armed
\* over a file saved before
C17_Witness ==
    /\ hist.op = "shutdown" /\ hist.ok
    /\ hist.before.dirty /\ hist.before.saveTimer
    /\ disk.bak # Absent /\ disk.bak # disk.main
    /\ store.data.reviews # EmptyMap

\* C16: once stop() has run, every timer start() created is cancelled: no
\* stagger timeout is outstanding and no interval is live, so no timer-driven
\* pollOnce starts any more.
C16_StopCancelsEveryTimer ==
    (sched.starts > 0 /\ ~sched.running) =>
        (sched.pending = {} /\ sched.intervals = {})

\* C18: the cache never holds more than IMAGE_CACHE_MAX entries; an insert
\* into a full cache evicts the entry used least recently and no other, an
\* insert into a cache that is not full evicts none; after a hit the entry hit
\* is the most recently used one.
C18_CacheIsLru ==
    LET removed == hist.before \ Keys(imageCache)
    IN  /\ Len(imageCache) <= IMAGE_CACHE_MAX
        /\ (hist.op = "set" /\ hist.full) =>
               /\ removed \subseteq {hist.oldest}
               /\ hist.key \notin hist.before => removed = {hist.oldest}
        /\ (hist.op = "set" /\ ~hist.full) => removed = {}
        /\ (hist.op = "get" /\ hist.hit) =>
               /\ imageCache[Len(imageCache)].key = hist.key
               /\ removed = {}

\* The callback-mode calls in progress that passed validation
Accepted == {r \in DOMAIN renders : renders[r].caller = "callback" /\ renders[r].pc # "idle"
                                    /\ renders[r].response.status # 400}

\* Such a call has answered 202 and nothing else, from before its render
\* starts on; it has made one POST when its render succeeded and none
\* otherwise
AcceptedThenDelivered ==
    \A r \in Accepted :
        LET call == renders[r]
        IN  /\ call.response = [NoResponse EXCEPT !.status = 202]
            /\ call.posts = IF call.pc \in {"posting", "responded"} /\ call.result.ok
                            THEN 1 ELSE 0

\* Once the render or the delivery is over the call does nothing more
NoRetry ==
    \A r \in Accepted :
        /\ renders[r].pc = "responded" => renders'[r].pc \in {"responded", "idle"}
        /\ renders[r].pc = "posting" =>
               /\ renders'[r].pc \in {"posting", "responded"}
               /\ renders'[r].posts = renders[r].posts

C20_RatingsWithinOneToFive ==
    \A id \in DOMAIN store.data.reviews :
        store.data.reviews[id].rating \in 1..5

\* C21: parsing the raw payload of a delivery again gives each record the id
\* the first parse gave it, so every record of a delivery that has been
\* processed is found stored when the same payload is parsed again.
C21_SamePayloadSameIds ==
    \A p \in DOMAIN procs :
        (procs[p].pc = "done" /\ procs[p].kind = "webhook") =>
            LET again == parseReviewsOf(procs[p].request.source,
                                        JsonParse(procs[p].request.raw))
            IN  \A i \in DOMAIN again :
                    /\ again[i].id = procs[p].input[i].id
                    /\ hasReview(store.data, again[i].id)

\* C11: the base repeat interval start() gives an adapter is the maximum of
\* the adapter's own poll interval, the global interval and 15 minutes.
C11_BaseIsMaxOfIntervals ==
    \A s \in sched.pending :
        s.intervalMs =
            Max(Max(sched.adapters[s.name].pollIntervalMinutes, s.global), 15) * 60 * 1000

\* The repeating timers of adapter n that are live
LiveTimers(n) == {i \in sched.intervals : i.name = n}

\* C40: whatever start and stop calls were made, an adapter has at most one
\* live repeating poll timer, and every live timer is the one the timers table
\* records for its adapter.
C40_OneRecordedTimerPerAdapter ==
    \A n \in Names :
        /\ Cardinality(LiveTimers(n)) <= 1
        /\ LiveTimers(n) \subseteq sched.timers[n]

----------------------------------------------------------------------------
(* Properties of the store's persistence *)

\* C5: while a save has not renamed tmp onto path, and after it was
\* interrupted there, a load returns the document persisted before the save
\* began (the reloaded store holds exactly it); and a completed save over an
\* existing file leaves in bak the content path held when the save began.
C5_SaveIsAtomic ==
    /\ (disk.savePc # "idle" \/ disk.outcome = "interrupted") =>
           /\ disk.main = disk.pre
           /\ disk.main # Torn
    /\ (disk.outcome = "interrupted" /\ disk.up /\ disk.fresh) =>
           store.data = load(disk.pre).data
    /\ (disk.outcome = "completed" /\ disk.pre # Absent) =>
           disk.bak = disk.pre

\* The process is back after a save of a changed document was interrupted
\* over an existing file, and has loaded the earlier document
C5_Witness ==
    /\ disk.outcome = "interrupted" /\ disk.up /\ disk.fresh
    /\ disk.pre # Absent
    /\ disk.tmp \notin {Absent, Torn, disk.main}
    /\ disk.bak = disk.main
    /\ store.data = Parse(disk.pre).value

\* The step in which a save completes
SaveCompletes == disk.savePc # "idle" /\ disk'.outcome = "completed"

\* C29: when a file operation of a save fails, dirty stays set, the document
\* in memory is unchanged and filePath holds what it held before; from then on
\* (in the same process) dirty is set until a save completes, so that the next
\* flush attempts the write again; and a save that completes leaves the latest
\* document in filePath and clears dirty.
C29_FailedSaveIsRetried ==
    /\ []((disk.outcome = "failed" /\ Ready /\ ~disk.fresh) => store.dirty)
    /\ [][/\ SaveThrow =>
                /\ store'.dirty /\ store'.data = store.data
                /\ disk'.main = disk.main
                /\ disk'.outcome = "failed" /\ disk'.savePc = "idle"
          /\ (Ready /\ store.dirty /\ SaveWrite) =>
                disk'.tmp = Serialise(store.data)
          /\ SaveCompletes =>
                /\ disk'.main = Serialise(store.data)
                /\ ~store'.dirty]_vars

\* A save of a changed document over an existing file has failed: the file
\* holds the earlier document, the store the later one, still dirty
C29_Witness ==
    /\ disk.outcome = "failed" /\ Ready
    /\ disk.main # Absent
    /\ store.dirty
    /\ store.data # Parse(disk.main).value

\* The store is as load left it, and that is what the content of filePath
\* calls for
LoadedAsFileSays ==
    (disk.up /\ disk.fresh) =>
        IF disk.main = Absent \/ ~Parse(disk.main).ok
              \/ Parse(disk.main).value.version # 1
        THEN store = [data |-> FreshDoc, dirty |-> TRUE, saveTimer |-> TRUE]
        ELSE store.data = Parse(disk.main).value /\ ~store.dirty

\* C30: load gives a fresh empty version-1 document, dirty and with a save
\* timer armed, when the file is missing, does not parse or has a version
\* other than 1; otherwise the document of the file, not dirty; so a load of
\* the file a completed save left gives exactly the document saved.
C30_LoadFreshOrAsSaved ==
    /\ []LoadedAsFileSays
    /\ [][SaveCompletes =>
             load(disk'.main) = [data |-> store.data, dirty |-> FALSE,
                                 saveTimer |-> FALSE]]_vars

\* A new process has loaded the document a completed save left, one with a
\* cursor in it
C30_Witness ==
    /\ disk.up /\ disk.fresh
    /\ disk.outcome = "completed"
    /\ ~store.dirty
    /\ store.data.cursors # EmptyMap
    /\ disk.main = Serialise(store.data)

\* A call of a mutator that has changed the document
Mutated ==
    \/ hist.op = "addReview"
    \/ hist.op = "markProcessed" /\ hasReview(store.data, hist.id)

\* C37: whenever the store is dirty, its save timer is armed or the save
\* attempted last has failed; after a mutator has changed the document the
\* timer is armed.
C37_DirtyHasPendingFlush ==
    /\ store.dirty => (store.saveTimer \/ hist.failed)
    /\ Mutated => (store.dirty /\ store.saveTimer)

\* A save has failed and left the store dirty with no timer, and after a record
\* was added the timer is armed again
C37_Witness ==
    /\ hist.op = "addReview"
    /\ hist.before.dirty /\ ~hist.before.saveTimer
    /\ store.dirty /\ store.saveTimer

----------------------------------------------------------------------------
(* Properties of the render side *)

Answered(r) ==
    /\ renders[r].caller = "generate" /\ renders[r].pc = "responded"
    /\ renders[r].response.status = 200

\* C6: a request (nocache not set) made while the cache holds the image of an
\* earlier successful render of a request with the same fields is answered
\* from the cache: X-Cache: HIT, the bytes of that render, no page leased.
C6_SameFieldsServedFromCache ==
    \A r \in DOMAIN renders :
        (/\ renders[r].caller = "generate" /\ renders[r].pc # "idle"
         /\ ~renders[r].nocache /\ renders[r].known)
        => /\ Answered(r)
           /\ renders[r].response.xcache = "HIT"
           /\ renders[r].response.body = renders[r].knownBuffer
           /\ ~renders[r].leased

\* C7: two render requests have the same cache key exactly when they have the
\* same field/value pairs, whatever the order of the fields.
C7_KeyIgnoresFieldOrder ==
    \A r, q \in DOMAIN renders :
        (renders[r].key # <<>> /\ renders[q].key # <<>>) =>
            (renders[r].key = renders[q].key
                <=> Fields(renders[r].params) = Fields(renders[q].params))

\* C8: every successful synchronous /generate response for a request with
\* size = p carries X-Image-Width = W(p) and X-Image-Height = H(p), fresh or
\* cached.
C8_SizeHeadersMatchPreset ==
    \A r \in DOMAIN renders :
        (Answered(r) /\ Has(renders[r].params, "size")) =>
            LET p == Get(renders[r].params, "size", DEFAULT_SIZE)
            IN  /\ renders[r].response.width = SIZE_PRESETS[p].width
                /\ renders[r].response.height = SIZE_PRESETS[p].height

\* A text with one of the characters < > " ' in it, or with an & that does not
\* begin one of the five entities
Unescaped(text) ==
    \E i \in DOMAIN text :
        \/ text[i] \in {"<", ">", "\"", "'"}
        \/ /\ text[i] = "&"
           /\ ~\E e \in Entities :
                  i + Len(e) - 1 <= Len(text) /\ SubSeq(text, i, i + Len(e) - 1) = e

\* C22: in the document renderImage builds, every value substituted for a
\* placeholder that came from the request has the characters & < > " ' replaced
\* by entities: none is inserted unescaped.
C22_EveryRequestValueEscaped ==
    hist.op = "fill" =>
        \A field \in DOMAIN hist.html : ~Unescaped(hist.html[field])

-----------------------------------------------------------------------------
(* Properties of the store's queries *)

\* C23: GET /reviews returns at most 200 records (the cap of the model:
\* MAX_LIMIT) whatever the limit parameter is, only records of the requested
\* source when one is given, the later date text first.
C23_AtMostCapOfSourceSorted ==
    hist.op = "recent" =>
        /\ Len(hist.returned) <= MAX_LIMIT
        /\ hist.source # Null =>
              \A i \in DOMAIN hist.returned : hist.returned[i].source = hist.source
        /\ \A i, j \in DOMAIN hist.returned :
              i < j => ~lessThan(dateOf(hist.returned[i]), dateOf(hist.returned[j]))

\* The records of the document prune found that are older than the cutoff: the
\* day their date names is before now - maxAgeDays
OlderThanCutoff ==
    {id \in DOMAIN hist.before.reviews :
        DayOf(dateOf(hist.before.reviews[id])) < hist.now - hist.maxAgeDays}

\* C24: prune(maxAgeDays) removes exactly the records whose review date
\* (processedAt when it has none) is older than now - maxAgeDays, keeps every
\* other record as it was, leaves cursors and totalIngested alone and returns
\* the number of records it removed.
C24_PruneRemovesExactlyTheOld ==
    hist.op = "prune" =>
        /\ DOMAIN store.data.reviews = DOMAIN hist.before.reviews \ OlderThanCutoff
        /\ \A id \in DOMAIN store.data.reviews :
              store.data.reviews[id] = hist.before.reviews[id]
        /\ store.data.cursors = hist.before.cursors
        /\ store.data.totalIngested = hist.before.totalIngested
        /\ hist.returned = <<Cardinality(OlderThanCutoff)>>

\* The records the store holds
Stored == DOMAIN store.data.reviews

\* C38: in a store started from the empty document, totalIngested never
\* decreases and is at least the number of the records stored, whatever
\* records are added and pruned.
C38_IngestedCountsEveryRecord ==
    /\ [](store.data.totalIngested >= Cardinality(Stored))
    /\ [][store'.data.totalIngested >= store.data.totalIngested]_vars

\* A prune has removed a record: more were ingested than are stored
C38_Witness ==
    /\ hist.op = "prune" /\ hist.returned[1] >= 1
    /\ Stored # {}
    /\ store.data.totalIngested > Cardinality(Stored)

-----------------------------------------------------------------------------
(* Properties of the stored-review routes *)

\* The step that answers the request in slot p
Answers(p) == procs[p].pc # "done" /\ procs'[p].pc = "done"

\* The flags of the stored records
Flags(st) ==
    [id \in DOMAIN st.data.reviews |->
        <<st.data.reviews[id].imageGenerated, st.data.reviews[id].slackShared>>]

\* C25: a request for an id that is not stored is answered NotFound and
\* changes nothing; a request for a stored id is answered with success exactly
\* when the render (for share: the render and the share) succeeded, and then
\* imageGenerated (for share: slackShared too) is set; a failure leaves every
\* flag as it was.
C25_StoredReviewRoutes ==
    [][\A p \in DOMAIN procs :
          LET id == procs'[p].id
          IN  /\ (procs[p].pc \in {"idle", "done"} /\ procs'[p] # procs[p]
                    /\ ~hasReview(store.data, id)) =>
                    procs'[p].status = 404 /\ procs'[p].pc = "done" /\ store' = store
              /\ Answers(p) =>
                    /\ procs'[p].status = 404 => ~hasReview(store.data, id)
                    /\ procs'[p].status = 200 <=>
                          /\ procs'[p].rendered
                          /\ procs'[p].route = "share" => procs'[p].shared
                    /\ procs'[p].status # 200 => Flags(store') = Flags(store)
                    /\ procs'[p].status = 200 =>
                          /\ store'.data.reviews[id].imageGenerated
                          /\ procs'[p].route = "share" =>
                                store'.data.reviews[id].slackShared
                          /\ procs'[p].route = "generate" =>
                                store'.data.reviews[id].slackShared
                                    = store.data.reviews[id].slackShared
                          /\ \A other \in DOMAIN store.data.reviews \ {id} :
                                store'.data.reviews[other] = store.data.reviews[other]]_vars

C35_OneBrowserLaunched == browser.launched <= 1

\* The step in which render r caches its image under a key that is in the
\* cache already (a concurrent render of the same request has inserted it)
InsertsAgain(r) ==
    /\ renders[r].pc = "page" /\ renders'[r].pc = "closing" /\ renders'[r].result.ok
    /\ CacheHas(imageCache, renders[r].key)

\* C36: an insert under a key that is present replaces the value of that key,
\* evicts no other entry even when the cache is full, leaves the number of
\* entries as it was and makes the key the most recently used.
C36_SecondInsertReplaces ==
    [][\A r \in DOMAIN renders :
          InsertsAgain(r) =>
              /\ Keys(imageCache') = Keys(imageCache)
              /\ Len(imageCache') = Len(imageCache)
              /\ imageCache'[Len(imageCache')].key = renders[r].key
              /\ imageCache'[Len(imageCache')].value.buffer = renders'[r].result.buffer]_vars

-----------------------------------------------------------------------------
(* Properties of the Yelp adapter *)

\* C32: after a fetch of the Yelp adapter that succeeded, the cursor it
\* returned is the latest review date this or any earlier fetch has seen, and
\* every record it returned has a review date later than the cursor passed in.
C32_CursorIsNewestSeen ==
    (hist.polled /\ hist.newest # <<>>) =>
        /\ hist.returned.cursor = hist.newest
        /\ truthy(hist.passed) =>
              \A i \in DOMAIN hist.returned.reviews :
                  greaterThan(hist.returned.reviews[i].reviewDate, hist.passed)

\* C39: a stored record whose slackShared is true has imageGenerated true,
\* however calls of process and requests to the generate and share routes of
\* stored reviews interleave, and a record has both flags false when it is
\* added.
C39_SharedImpliesGenerated ==
    /\ [](\A id \in Stored :
             store.data.reviews[id].slackShared => store.data.reviews[id].imageGenerated)
    /\ [][\A id \in DOMAIN store'.data.reviews \ Stored :
             /\ ~store'.data.reviews[id].imageGenerated
             /\ ~store'.data.reviews[id].slackShared]_vars

\* The share route has shared a record whose render in process failed, while
\* another call of process has shared a record itself
C39_Witness ==
    /\ procs[StoredSlot].pc = "done" /\ procs[StoredSlot].shared
    /\ \E p, q \in Procs :
          /\ procs[StoredSlot].id \in procs[p].renderFailed
          /\ procs[q].results.shared >= 1
    /\ store.data.reviews[procs[StoredSlot].id].slackShared

-----------------------------------------------------------------------------
(* Properties of polling and saving together *)

\* The document the file holds
OnDisk == Parse(disk.main).value

\* C33: a document a save has written holds the cursor a fetch returned only
\* together with every review of that fetch: while a poll that found no cursor
\* is in process, a file that holds a cursor of its adapter holds all the
\* reviews the poll fetched.
C33_SavedCursorComesWithReviews ==
    \A c \in DOMAIN polls :
        (/\ polls[c].pc = "processing"
         /\ polls[c].cursor = Null
         /\ disk.main # Absent
         /\ polls[c].name \in DOMAIN OnDisk.cursors) =>
            \A i \in DOMAIN procs[c].input : procs[c].input[i].id \in DOMAIN OnDisk.reviews

----------------------------------------------------------------------------
(* Properties of the batch route *)

Rendering == {r \in DOMAIN renders :
                 renders[r].caller = "batch" /\ renders[r].pc \notin {"idle", "responded"}}

Started == {r \in DOMAIN renders : renders[r].caller = "batch" /\ renders[r].pc # "idle"}

\* C9: the batch renders in consecutive chunks of at most 3: at most 3 renders
\* are in flight; every render started belongs to the chunk at batch.i, and the
\* results of all items before it are in (no render of the next chunk starts
\* before every render of this one has finished); in the response
\* results[i].index = i for every i.
C9_ChunksOfThreeInOrder ==
    /\ Cardinality(Rendering) <= BATCH_CONCURRENCY
    /\ batch.pc = "running" =>
          /\ Len(batch.results) = batch.i
          /\ \A r \in Started :
                renders[r].index >= batch.i /\ renders[r].index < batch.i + BATCH_CONCURRENCY
    /\ \A k \in DOMAIN batch.results : batch.results[k].index = k - 1
    /\ (batch.pc = "done" /\ batch.status = 200) =>
          Len(batch.results) = Len(batch.reviews)

\* A batch of four has been answered, the render of its second item having
\* failed and the others succeeded
C9_Witness ==
    /\ batch.pc = "done" /\ batch.status = 200
    /\ Len(batch.results) = 4
    /\ ~batch.results[2].success
    /\ batch.results[1].success /\ batch.results[3].success /\ batch.results[4].success

=============================================================================
